---------------------------- MODULE Spec2Model ----------------------------
(***************************************************************************)
(* A model of the chunked media-to-text pipeline of this repository:       *)
(*   src/src/transcribe_audio.py  split_audio_file, transcribe_chunk,      *)
(*                                merge_transcription_results,             *)
(*                                transcribe_audio                         *)
(*   src/src/summarize_text.py    split_text_into_chunks, summarize_chunk, *)
(*                                summarize_text                           *)
(*   src/src/chat_completion.py   chat_completion                          *)
(*   src/src/translate_text.py    translate_list, translate_list_parallel  *)
(*   src/web_app.py               process_video, update_progress and the   *)
(*                                job threads                              *)
(*                                                                         *)
(* Time is counted in whole units, so that duration > 1.5 * chunk_duration *)
(* is 2 * duration > 3 * chunk_duration.  A file is a number: 0 is the     *)
(* original audio file, k >= 1 the temporary extract of chunk_index k - 1. *)
(* Every segment and word carries, beside start and end, the values the    *)
(* speech or alignment service returned for it (loc_start, loc_end); the   *)
(* program never writes these two fields.                                  *)
(***************************************************************************)
EXTENDS Integers, Sequences, FiniteSets, TLC

\* ------------------------------------------------------------------ bounds
MaxDuration == 5
MaxChunkDuration == 3
MaxChunks == 3
MaxWorkers == 2
MaxResults == 3
MaxChunkStart == 2
MaxTextLen == 5
MaxChunkSize == 3
MaxOverlap == 3
MaxSumTextLen == 3
MaxSumWorkers == 2
MaxRetryCount == 3
MaxRetryDelay == 2
MaxJobs == 2
MaxClock == 1
MaxTexts == 4
MaxBatchSize == 2
MaxTrWorkers == 2

VARIABLES
    \* transcribe_audio
    args,            \* the call's arguments and the probed duration
    pc,              \* position of the main thread in transcribe_audio
    chunks,          \* spans (file, start, end) the audio is processed in
    disk,            \* temporary chunk files present on disk
    detected_language,
    align_loaded,    \* model_a and align_metadata are both set
    fut,             \* per chunk index: the state and the result of its future
    results,         \* the list `results`, in the order it was appended to
    diarize,         \* the local `diarize`, which line 539 / 655 may clear
    result,          \* the variable `result`
    merged,          \* the value of `result` after line 520 (chunked path)
    ret,             \* what transcribe_audio returned
    faults,          \* which calls of the main thread raised
    job_status,      \* the status of the job that called transcribe_audio
    model_calls,     \* per file: how often model.transcribe was called on it
    progress_events, \* the calls of progress_callback so far, in order
    align_language,  \* the language_code line 454 asked an alignment model for
    \* merge_transcription_results, called on a list and on a permutation of it
    m_pc,
    m_results,       \* the list of per-chunk results
    m_perm,          \* the same results in another order
    m_out,           \* merge_transcription_results(m_results)
    m_out_perm,      \* merge_transcription_results(m_perm)
    \* split_text_into_chunks
    st_pc,
    st_text,         \* text, a sequence of characters
    st_chunk_size,
    st_chunk_overlap,
    st_start,        \* the local `start`
    st_chunks,       \* the list `chunks`
    st_cuts,         \* the (start, end) of every iteration of the loop so far
    st_first,        \* what an earlier call on the same arguments returned
    \* summarize_text
    su_pc,
    su_args,         \* api_key (present or not), enable_async, max_workers
    su_fut,          \* per chunk index 1..total_chunks: the state of its future
    su_results_dict, \* results_dict, a function on the indices collected so far
    su_chunk_summaries,
    su_combined,     \* the tagged summaries put into the reduction prompt
    su_chunk_calls,  \* language-model calls made for chunks
    su_reduce_calls, \* language-model calls made for the reduction
    su_ret,          \* what summarize_text returned
    su_llm,          \* per call (0 the reduction, i the chunk i): what the model did
    su_order,        \* the chunk indices in the order the as_completed loop took them
    su_error,        \* the exception summarize_text raised, "" when none
    su_job,          \* status, error and summary of the job that called summarize_text
    \* chat_completion
    cc_pc,
    cc_args,         \* retry_count, retry_delay, and whether messages is well formed
    cc_attempt,      \* the loop variable `attempt`
    cc_last_exception,
    cc_requests,     \* requests sent so far
    cc_sleeps,       \* the delays slept so far, in order
    cc_net,          \* what each request sent so far ran into
    cc_ret,          \* the response returned: the number of the request it answers
    cc_exc,          \* the exception raised, "" when none
    \* the web application
    wa_now,          \* the clock, in seconds
    tasks,           \* the dictionary tasks: task id -> record
    progress_queues, \* the dictionary progress_queues: task id -> queue
    wa_jobs,         \* the job threads started, in the order of their requests: where
                     \* each is, its task id, the step it announced last, its exception
    wa_responses,    \* the answers of /process so far
    \* translate_list_parallel
    tr_pc,
    tr_args,         \* texts, batch_size, max_workers
    tr_fut,          \* per batch (its number, from 1): the state of its future
    tr_outcome,      \* per batch whose translation was tried: "ok" or "failed"
    tr_translated_texts, \* the list translated_texts; None where nothing is yet
    tr_ret,          \* the list returned
    tr_exc           \* the exception raised, "" when none

varsT == <<args, pc, chunks, disk, detected_language, align_loaded, fut,
           results, diarize, result, merged, ret, faults, job_status,
           model_calls, progress_events, align_language>>

\* What transcribe_audio does to the services and to the callback.
obsT == <<model_calls, progress_events, align_language>>

varsM == <<m_pc, m_results, m_perm, m_out, m_out_perm>>

varsS == <<st_pc, st_text, st_chunk_size, st_chunk_overlap, st_start, st_chunks, st_cuts,
           st_first>>

varsU == <<su_pc, su_args, su_fut, su_results_dict, su_chunk_summaries, su_combined,
           su_chunk_calls, su_reduce_calls, su_ret, su_llm, su_order, su_error, su_job>>

varsC == <<cc_pc, cc_args, cc_attempt, cc_last_exception, cc_requests, cc_sleeps,
           cc_net, cc_ret, cc_exc>>

varsW == <<wa_now, tasks, progress_queues, wa_jobs, wa_responses>>

varsR == <<tr_pc, tr_args, tr_fut, tr_outcome, tr_translated_texts, tr_ret, tr_exc>>

vars == <<varsT, varsM, varsS, varsU, varsC, varsW, varsR>>

\* What the steps of one operation leave alone: the variables of the others.
restT == <<varsM, varsS, varsU, varsC, varsW, varsR>>
restM == <<varsT, varsS, varsU, varsC, varsW, varsR>>
restS == <<varsT, varsM, varsU, varsC, varsW, varsR>>
restU == <<varsT, varsM, varsC, varsW, varsR>>
restC == <<varsT, varsM, varsS, varsU, varsW, varsR>>
restW == <<varsT, varsM, varsS, varsU, varsC, varsR>>
restR == <<varsT, varsM, varsS, varsU, varsC, varsW>>

\* ----------------------------------------------------------------- helpers
Min(a, b) == IF a < b THEN a ELSE b
Max(a, b) == IF a > b THEN a ELSE b
Range(s) == {s[i] : i \in 1..Len(s)}
NoResult == [segments |-> <<>>, language |-> "none"]
audio_file == 0

\* One word / one segment as the speech or alignment service returns it.
Word(w, s, e) == [word |-> w, start |-> s, end |-> e, loc_start |-> s, loc_end |-> e]
Seg(t, s, e, ws) ==
    [text |-> t, start |-> s, end |-> e, words |-> ws, speaker |-> "",
     loc_start |-> s, loc_end |-> e]

\* model.transcribe on an extract of length len: the segments of the
\* recording, with times local to the extract.
\*   "talk"  one utterance over the whole extract, its words (the last one
\*           empty and of zero length),
\*   "gaps"  a segment with empty text, then (if the extract is long enough)
\*           an utterance.
Recordings == {"talk", "gaps"}
Speech(audio, len) ==
    IF audio = "talk"
    THEN << Seg("a", 0, len, << Word("a", 0, len), Word("", len, len) >>) >>
    ELSE IF len >= 2
         THEN << Seg("", 0, 1, <<>>), Seg("b", 1, len, << Word("b", 1, len) >>) >>
         ELSE << Seg("", 0, len, <<>>) >>

\* whisperx.align on the segments it is given: same texts, the times measured
\* on the extract (local to it), one word per segment.
Align(segs) ==
    [i \in 1..Len(segs) |->
        [segs[i] EXCEPT !.start = segs[i].loc_start, !.end = segs[i].loc_end,
                        !.words = << Word(segs[i].text, segs[i].loc_start, segs[i].loc_end) >>]]

\* ------------------------------------------------- split_audio_file (102-168)
Span(f, s, e) == [file |-> f, start |-> s, end |-> e]
NoFail == -1

\* The while loop of lines 139-166 from start_time with chunk_index chunks
\* already cut; ffmpeg fails on the extract with index failAt (NoFail: never).
RECURSIVE SplitLoop(_, _, _, _, _)
SplitLoop(duration, chunk_duration, failAt, start_time, acc) ==
    IF ~(start_time < duration) THEN acc
    ELSE LET end_time == Min(start_time + chunk_duration, duration)
             chunk_index == Len(acc)
         IN  IF chunk_index = failAt
             THEN IF chunk_index = 0
                  THEN << Span(audio_file, 0, duration) >>
                  ELSE acc
             ELSE SplitLoop(duration, chunk_duration, failAt, end_time,
                            Append(acc, Span(chunk_index + 1, start_time, end_time)))

split_audio_file(duration, chunk_duration, failAt) ==
    IF duration = 0 THEN << Span(audio_file, 0, duration) >>
    ELSE IF duration <= chunk_duration THEN << Span(audio_file, 0, duration) >>
    ELSE SplitLoop(duration, chunk_duration, failAt, 0, <<>>)

\* line 407 without the factor 1.5
should_chunk_NoMargin(enable_chunking, audio_duration, chunk_duration) ==
    enable_chunking /\ audio_duration > chunk_duration

\* line 407
should_chunk(enable_chunking, audio_duration, chunk_duration) ==
    enable_chunking /\ 2 * audio_duration > 3 * chunk_duration

\* The spans transcribe_audio works on: those of split_audio_file on the
\* chunked path (line 415), the whole file otherwise (line 579).
Chunker(enable_chunking, audio_duration, chunk_duration, failAt) ==
    IF should_chunk(enable_chunking, audio_duration, chunk_duration)
    THEN split_audio_file(audio_duration, chunk_duration, failAt)
    ELSE << Span(audio_file, 0, audio_duration) >>

\* --------------------------------------------------- transcribe_chunk (171-268)
ShiftWord(w, d) == [w EXCEPT !.start = @ + d, !.end = @ + d]
ShiftSeg(seg, d) ==
    [seg EXCEPT !.start = @ + d, !.end = @ + d,
                !.words = [i \in 1..Len(seg.words) |-> ShiftWord(seg.words[i], d)]]
\* lines 209-217 and 257-263
ShiftAll(segs, d) == [i \in 1..Len(segs) |-> ShiftSeg(segs[i], d)]

\* lines 223-226 (the texts of the model carry no surrounding whitespace
\* other than being empty)
HasText(seg) == seg.text # ""
ValidSegments(segs) == SelectSeq(segs, HasText)

\* lines 251-254
WordOk(w) == w.word # "" /\ w.start >= 0 /\ w.end > w.start
DropInvalidWords(segs) ==
    [i \in 1..Len(segs) |-> [segs[i] EXCEPT !.words = SelectSeq(@, WordOk)]]

\* lines 220-263: the alignment step on the already shifted segments.
\* outcome is what the services do: "ok", or "align_raise" (whisperx.align
\* raises).
AlignStep(segs, chunk_start, outcome) ==
    LET valid == ValidSegments(segs)
        after == IF valid = <<>> THEN segs
                 ELSE IF outcome = "align_raise" THEN DropInvalidWords(segs)
                 ELSE Align(valid)
    IN  ShiftAll(after, chunk_start)

\* outcome "raise": load_audio or model.transcribe raises (lines 266-268).
transcribe_chunk(audio, len, chunk_start, language, has_align, outcome) ==
    IF outcome = "raise"
    THEN [segments |-> <<>>, language |-> IF language # "" THEN language ELSE "unknown"]
    ELSE LET shifted == ShiftAll(Speech(audio, len), chunk_start)
         IN  [segments |-> IF has_align THEN AlignStep(shifted, chunk_start, outcome)
                           ELSE shifted,
              language |-> IF language # "" THEN language ELSE "en"]

\* ---------------------------------------- merge_transcription_results (271-298)
\* list.sort(key=start) is stable: an element goes after every element whose
\* start is not greater than its own.
RECURSIVE InsertByStart(_, _)
InsertByStart(sorted, x) ==
    IF sorted = <<>> THEN << x >>
    ELSE IF sorted[Len(sorted)].start <= x.start THEN Append(sorted, x)
    ELSE Append(InsertByStart(SubSeq(sorted, 1, Len(sorted) - 1), x), sorted[Len(sorted)])

\* line 295 left out
SortByStart_Unsorted(s) == s

RECURSIVE SortByStart(_)
SortByStart(s) ==
    IF s = <<>> THEN <<>>
    ELSE InsertByStart(SortByStart(SubSeq(s, 1, Len(s) - 1)), s[Len(s)])

\* lines 290-292
RECURSIVE Concat(_)
Concat(rs) == IF rs = <<>> THEN <<>> ELSE rs[1].segments \o Concat(Tail(rs))

merge_transcription_results(rs) ==
    IF rs = <<>> THEN [segments |-> <<>>, language |-> "unknown"]
    ELSE [segments |-> SortByStart(Concat(rs)), language |-> rs[1].language]

\* Ordered by start (what the merge is to establish).
Sorted(segs) == \A i \in 1..(Len(segs) - 1) : segs[i].start <= segs[i + 1].start

\* ------------------------------------------------- transcribe_audio (301-692)
NumChunks == Len(chunks)
ChunkIdx == 0..(NumChunks - 1)
IsChunked == should_chunk(args.enable_chunking, args.audio_duration, args.chunk_duration)
Terminal == pc \in {"returned", "raised"}
Files == 0..MaxChunks

\* model.transcribe is called on the file f
Called(f) == [model_calls EXCEPT ![f] = @ + 1]

\* progress_callback(current, total, message); of the message the numbers
\* it names are kept
Event(current, total, numbers) == [current |-> current, total |-> total, message |-> numbers]

\* whisperx.assign_word_speakers (lines 550, 666): every segment gets the
\* speaker the diarization found.
AssignSpeakers(r) ==
    [r EXCEPT !.segments = [i \in 1..Len(r.segments) |-> [r.segments[i] EXCEPT !.speaker = "S0"]]]

\* Any exception inside the try of lines 396-688 reaches lines 690-692 and is
\* raised again; the caller (src/web_app.py 1365-1367) sets the job's status
\* to error.
Raise(what) ==
    /\ pc' = "raised"
    /\ faults' = faults \cup {what}
    /\ job_status' = "error"

\* lines 339-341 moved behind the loading of the models: the missing file is
\* noticed once the alignment model is there
CheckFile_AfterLoad ==
    /\ pc = "start"
    /\ \/ /\ pc' = "decide"
          /\ UNCHANGED <<faults, job_status, align_loaded>>
       \/ /\ Raise("no_file")
          /\ align_loaded' = TRUE
    /\ UNCHANGED obsT
    /\ UNCHANGED <<args, chunks, disk, detected_language, fut,
                   results, diarize, result, merged, ret>>

\* lines 339-341 (FileNotFoundError, outside the try), then the probe
CheckFile ==
    /\ pc = "start"
    /\ \/ /\ pc' = "decide"
          /\ UNCHANGED <<faults, job_status>>
       \/ Raise("no_file")
    /\ UNCHANGED obsT
    /\ UNCHANGED <<args, chunks, disk, detected_language, align_loaded, fut,
                   results, diarize, result, merged, ret>>

\* lines 407-419: the decision, and on the chunked path split_audio_file,
\* whose extracts are created on disk, between two calls of the progress
\* callback (the callers of the web application pass one).
Split ==
    /\ pc = "decide"
    /\ \E failAt \in {NoFail} \cup 0..(MaxChunks - 1) :
          /\ chunks' = Chunker(args.enable_chunking, args.audio_duration,
                               args.chunk_duration, failAt)
          /\ faults' = IF IsChunked /\ failAt # NoFail /\ failAt * args.chunk_duration < args.audio_duration
                       THEN faults \cup {"ffmpeg"} ELSE faults
    /\ disk' = {chunks'[i].file : i \in 1..Len(chunks')} \ {audio_file}
    /\ pc' = IF IsChunked THEN "load_model" ELSE "w_load"
    /\ progress_events' = IF IsChunked
                          THEN progress_events \o << Event(0, 100, <<>>),
                                                     Event(10, 100, << Len(chunks') >>) >>
                          ELSE progress_events
    /\ UNCHANGED <<model_calls, align_language>>
    /\ UNCHANGED <<args, detected_language, align_loaded, fut, results,
                   diarize, result, merged, ret, job_status>>

\* lines 423-439
LoadModel ==
    /\ pc = "load_model"
    /\ \/ /\ pc' = "detect"
          /\ UNCHANGED <<faults, job_status>>
       \/ Raise("load_model")
    /\ UNCHANGED obsT
    /\ UNCHANGED <<args, chunks, disk, detected_language, align_loaded, fut,
                   results, diarize, result, merged, ret>>

\* What the speech model may find a recording to be spoken in.
DetectedLanguages == {"en", "zh"}

\* lines 441-447: with no language given the first chunk is transcribed, in
\* the main thread and outside any handler of its own.
DetectLanguage ==
    /\ pc = "detect"
    /\ IF args.language = "" /\ chunks # <<>>
       THEN /\ model_calls' = Called(chunks[1].file)
            /\ \/ /\ detected_language' \in DetectedLanguages
                  /\ pc' = "load_align"
                  /\ UNCHANGED <<faults, job_status>>
               \/ /\ Raise("detect")
                  /\ UNCHANGED detected_language
       ELSE /\ detected_language' = args.language
            /\ pc' = "load_align"
            /\ UNCHANGED <<faults, job_status, model_calls>>
    /\ UNCHANGED <<progress_events, align_language>>
    /\ UNCHANGED <<args, chunks, disk, align_loaded, fut, results, diarize,
                   result, merged, ret>>

\* lines 449-461: a failure to load the alignment model is absorbed.
LoadAlignModel ==
    /\ pc = "load_align"
    /\ align_loaded' \in IF detected_language # "" THEN BOOLEAN ELSE {FALSE}
    /\ align_language' = detected_language
    /\ pc' = "submit"
    /\ UNCHANGED <<model_calls, progress_events>>
    /\ UNCHANGED <<args, chunks, disk, detected_language, fut, results,
                   diarize, result, merged, ret, faults, job_status>>

\* lines 469-487 with the argument `language` of the call in the place of
\* detected_language
Submit_GivenLanguage ==
    /\ pc = "submit"
    /\ fut' = [i \in ChunkIdx |-> [state |-> "pending", language |-> args.language,
                                    outcome |-> "", result |-> NoResult]]
    /\ pc' = "collect"
    /\ UNCHANGED obsT
    /\ UNCHANGED <<args, chunks, disk, detected_language, align_loaded,
                   results, diarize, result, merged, ret, faults, job_status>>

\* lines 469-487: every chunk is submitted to the pool.
Submit ==
    /\ pc = "submit"
    /\ fut' = [i \in ChunkIdx |-> [state |-> "pending", language |-> detected_language,
                                    outcome |-> "", result |-> NoResult]]
    /\ pc' = "collect"
    /\ UNCHANGED obsT
    /\ UNCHANGED <<args, chunks, disk, detected_language, align_loaded,
                   results, diarize, result, merged, ret, faults, job_status>>

Running == {i \in DOMAIN fut : fut[i].state = "running"}
Pending == {i \in DOMAIN fut : fut[i].state = "pending"}

\* A pool that starts a thread for every task submitted
WorkerStart_Unbounded(i) ==
    /\ pc = "collect"
    /\ i \in Pending
    /\ \A j \in Pending : i <= j
    /\ fut' = [fut EXCEPT ![i].state = "running"]
    /\ UNCHANGED obsT
    /\ UNCHANGED <<args, pc, chunks, disk, detected_language, align_loaded,
                   results, diarize, result, merged, ret, faults, job_status>>

\* A pool thread takes the oldest queued task (ThreadPoolExecutor's queue is
\* first in, first out); at most max_workers threads exist.
WorkerStart(i) ==
    /\ pc = "collect"
    /\ i \in Pending
    /\ \A j \in Pending : i <= j
    /\ Cardinality(Running) < args.max_workers
    /\ fut' = [fut EXCEPT ![i].state = "running"]
    /\ UNCHANGED obsT
    /\ UNCHANGED <<args, pc, chunks, disk, detected_language, align_loaded,
                   results, diarize, result, merged, ret, faults, job_status>>

\* What the services may do for one chunk.
Outcomes == IF align_loaded THEN {"ok", "raise", "align_raise"} ELSE {"ok", "raise"}

\* The call of transcribe_chunk in a pool thread (lines 474-486), with the
\* language that was given to submit.  When it fails, model.transcribe was
\* called and raised, or load_audio raised before it.
WorkerFinish(i) ==
    /\ pc = "collect"
    /\ i \in Running
    /\ \E o \in Outcomes :
          /\ fut' = [fut EXCEPT ![i] =
                       [state |-> "done", language |-> fut[i].language, outcome |-> o,
                        result |-> transcribe_chunk(args.audio,
                                                    chunks[i + 1].end - chunks[i + 1].start,
                                                    chunks[i + 1].start, fut[i].language,
                                                    align_loaded, o)]]
          /\ model_calls' \in IF o = "raise"
                               THEN {model_calls, Called(chunks[i + 1].file)}
                               ELSE {Called(chunks[i + 1].file)}
    /\ UNCHANGED <<progress_events, align_language>>
    /\ UNCHANGED <<args, pc, chunks, disk, detected_language, align_loaded,
                   results, diarize, result, merged, ret, faults, job_status>>

\* One iteration of the as_completed loop (lines 491-507): a finished future
\* is taken and its result appended.  idx is the index future_to_chunk keeps
\* for it; the code reads it only for its messages.
\* lines 498-504 sending the two counts themselves
ChunkEvent_Counts(completed, total) ==
    Event(completed, total, <<completed, total>>)

\* lines 498-504: the event sent when `completed` of `total` chunks are in
ChunkEvent(completed, total) ==
    Event(20 + (completed * 50) \div total, 100, <<completed, total>>)

AppendResult(rs, idx, r) == Append(rs, [idx |-> idx, segments |-> r.segments, language |-> r.language])

Collect(i) ==
    /\ pc = "collect"
    /\ i \in DOMAIN fut
    /\ fut[i].state = "done"
    /\ results' = AppendResult(results, i, fut[i].result)
    /\ fut' = [fut EXCEPT ![i].state = "collected"]
    /\ progress_events' = Append(progress_events, ChunkEvent(Len(results'), NumChunks))
    /\ UNCHANGED <<model_calls, align_language>>
    /\ UNCHANGED <<args, pc, chunks, disk, detected_language, align_loaded,
                   diarize, result, merged, ret, faults, job_status>>

\* lines 491-515 with a loop that a failed worker ends: the futures still
\* queued or running are dropped.
Cleanup_AfterFailure ==
    /\ pc = "collect"
    /\ \/ \A i \in DOMAIN fut : fut[i].state = "collected"
       \/ \E i \in DOMAIN fut : fut[i].state = "collected" /\ fut[i].outcome = "raise"
    /\ disk' = disk \ ({chunks[i].file : i \in 1..Len(chunks)} \ {audio_file})
    /\ pc' = "merge"
    /\ UNCHANGED obsT
    /\ UNCHANGED <<args, chunks, detected_language, align_loaded, fut,
                   results, diarize, result, merged, ret, faults, job_status>>

\* lines 507-515: the loop ends when every future was yielded, the pool shuts
\* down, and the chunk files other than the original are removed.
Cleanup ==
    /\ pc = "collect"
    /\ \A i \in DOMAIN fut : fut[i].state = "collected"
    /\ disk' = disk \ ({chunks[i].file : i \in 1..Len(chunks)} \ {audio_file})
    /\ pc' = "merge"
    /\ UNCHANGED obsT
    /\ UNCHANGED <<args, chunks, detected_language, align_loaded, fut,
                   results, diarize, result, merged, ret, faults, job_status>>

\* lines 519-520
Merge ==
    /\ pc = "merge"
    /\ result' = [merge_transcription_results(results) EXCEPT
                    !.language = IF detected_language # "" THEN detected_language ELSE "unknown"]
    /\ merged' = result'
    /\ pc' = "diarize"
    /\ UNCHANGED obsT
    /\ UNCHANGED <<args, chunks, disk, detected_language, align_loaded, fut,
                   results, diarize, ret, faults, job_status>>

\* lines 536-552 and 651-670 without the test of hf_token
DiarizeStep_NoTokenCheck(at, next) ==
    /\ pc = at
    /\ IF diarize
       THEN \/ /\ result' = AssignSpeakers(result)
               /\ pc' = next
               /\ UNCHANGED <<diarize, faults, job_status>>
            \/ /\ Raise("diarize")
               /\ UNCHANGED <<diarize, result>>
       ELSE /\ pc' = next
            /\ UNCHANGED <<diarize, result, faults, job_status>>
    /\ UNCHANGED obsT
    /\ UNCHANGED <<args, chunks, disk, detected_language, align_loaded, fut,
                   results, merged, ret>>

\* lines 536-552 and 651-670: `at` is where the step stands, `next` where it
\* goes.
DiarizeStep(at, next) ==
    /\ pc = at
    /\ IF diarize /\ ~args.hf_token
       THEN /\ diarize' = FALSE
            /\ pc' = next
            /\ UNCHANGED <<result, faults, job_status>>
       ELSE IF diarize
       THEN \/ /\ result' = AssignSpeakers(result)
               /\ pc' = next
               /\ UNCHANGED <<diarize, faults, job_status>>
            \/ /\ Raise("diarize")
               /\ UNCHANGED <<diarize, result>>
       ELSE /\ pc' = next
            /\ UNCHANGED <<diarize, result, faults, job_status>>
    /\ UNCHANGED obsT
    /\ UNCHANGED <<args, chunks, disk, detected_language, align_loaded, fut,
                   results, merged, ret>>

\* The chunked branch ends at line 552; line 561 is not inside the else of
\* line 554, so the chunked path goes on with the whole-file steps.
DiarizeChunked == DiarizeStep("diarize", "w_load")

\* lines 561-577
WholeLoadModel ==
    /\ pc = "w_load"
    /\ \/ /\ pc' = "w_transcribe"
          /\ UNCHANGED <<faults, job_status>>
       \/ Raise("w_load_model")
    /\ UNCHANGED obsT
    /\ UNCHANGED <<args, chunks, disk, detected_language, align_loaded, fut,
                   results, diarize, result, merged, ret>>

\* lines 579-580: the whole file is loaded and transcribed.
WholeTranscribe ==
    /\ pc = "w_transcribe"
    /\ \/ /\ result' = [segments |-> Speech(args.audio, args.audio_duration),
                        language |-> IF args.language # "" THEN args.language ELSE "en"]
          /\ pc' = "w_align"
          /\ model_calls' = Called(audio_file)
          /\ UNCHANGED <<faults, job_status>>
       \/ /\ Raise("w_transcribe")
          /\ UNCHANGED <<result, model_calls>>
    /\ UNCHANGED <<progress_events, align_language>>
    /\ UNCHANGED <<args, chunks, disk, detected_language, align_loaded, fut,
                   results, diarize, merged, ret>>

\* lines 617-626: the aligned segments, then every segment of the transcript
\* whose text is not the text of an aligned one.
Texts(segs) == {segs[i].text : i \in 1..Len(segs)} \ {""}
NotIn(texts, segs) == SelectSeq(segs, LAMBDA seg : seg.text \notin texts)
WholeAligned(segs) ==
    LET valid == ValidSegments(segs)
        aligned == Align(valid)
    IN  IF valid = <<>> THEN segs ELSE aligned \o NotIn(Texts(aligned), segs)

\* lines 594-634: load_align_model or align may raise; the handler keeps the
\* transcript as it is.
WholeAlign ==
    /\ pc = "w_align"
    /\ \/ result' = [result EXCEPT !.segments = WholeAligned(@)]
       \/ UNCHANGED result
    /\ pc' = "w_diarize"
    /\ UNCHANGED obsT
    /\ UNCHANGED <<args, chunks, disk, detected_language, align_loaded, fut,
                   results, diarize, merged, ret, faults, job_status>>

DiarizeWhole == DiarizeStep("w_diarize", "save")

\* lines 673-688
SaveAndReturn ==
    /\ pc = "save"
    /\ \/ /\ ret' = result
          /\ pc' = "returned"
          /\ UNCHANGED <<faults, job_status>>
       \/ /\ Raise("save")
          /\ UNCHANGED ret
    /\ UNCHANGED obsT
    /\ UNCHANGED <<args, chunks, disk, detected_language, align_loaded, fut,
                   results, diarize, result, merged>>

\* The arguments of a call: durations, chunk sizes and recordings of the
\* bounded sets, at most MaxChunks chunks.
CeilDiv(a, b) == (a + b - 1) \div b
DiarizeArgs == {<<FALSE, FALSE>>, <<TRUE, FALSE>>, <<TRUE, TRUE>>}
Args ==
    {[audio_duration |-> d, chunk_duration |-> c, enable_chunking |-> e,
      language |-> l, diarize |-> da[1], hf_token |-> da[2],
      max_workers |-> MaxWorkers, audio |-> a] :
        d \in 1..MaxDuration, c \in 1..MaxChunkDuration, e \in BOOLEAN,
        l \in {"", "en"}, da \in DiarizeArgs, a \in Recordings}

\* The variables of the other specifications, which transcribe_audio leaves
\* alone.
IdleM ==
    /\ m_pc = "idle"
    /\ m_results = <<>>
    /\ m_perm = <<>>
    /\ m_out = NoResult
    /\ m_out_perm = NoResult

NoCall == [called |-> FALSE, chunks |-> <<>>]
IdleS ==
    /\ st_pc = "idle"
    /\ st_text = <<>>
    /\ st_chunk_size = 0
    /\ st_chunk_overlap = 0
    /\ st_start = 0
    /\ st_chunks = <<>>
    /\ st_cuts = <<>>
    /\ st_first = NoCall

NoSummary == [kind |-> "none", of |-> <<>>, index |-> 0, reason |-> ""]
NoJob == [status |-> "none", error |-> "None", summary |-> NoSummary]
IdleU ==
    /\ su_pc = "idle"
    /\ su_args = [api_key |-> FALSE]
    /\ su_fut = <<>>
    /\ su_results_dict = <<>>
    /\ su_chunk_summaries = <<>>
    /\ su_combined = <<>>
    /\ su_chunk_calls = 0
    /\ su_reduce_calls = 0
    /\ su_ret = NoSummary
    /\ su_llm = <<>>
    /\ su_order = <<>>
    /\ su_error = ""
    /\ su_job = NoJob

IdleC ==
    /\ cc_pc = "idle"
    /\ cc_args = [retry_count |-> 0]
    /\ cc_attempt = 0
    /\ cc_last_exception = ""
    /\ cc_requests = 0
    /\ cc_sleeps = <<>>
    /\ cc_net = <<>>
    /\ cc_ret = 0
    /\ cc_exc = ""

IdleR ==
    /\ tr_pc = "idle"
    /\ tr_args = [texts |-> <<>>]
    /\ tr_fut = <<>>
    /\ tr_outcome = <<>>
    /\ tr_translated_texts = <<>>
    /\ tr_ret = <<>>
    /\ tr_exc = ""

IdleW ==
    /\ wa_now = 0
    /\ tasks = <<>>
    /\ progress_queues = <<>>
    /\ wa_jobs = <<>>
    /\ wa_responses = <<>>

IdleT ==
    /\ args = [audio_duration |-> 0]
    /\ pc = "idle"
    /\ chunks = <<>>
    /\ disk = {}
    /\ detected_language = ""
    /\ align_loaded = FALSE
    /\ fut = <<>>
    /\ results = <<>>
    /\ diarize = FALSE
    /\ result = NoResult
    /\ merged = NoResult
    /\ ret = NoResult
    /\ faults = {}
    /\ job_status = "idle"
    /\ model_calls = <<>>
    /\ progress_events = <<>>
    /\ align_language = ""

Init ==
    /\ IdleR
    /\ IdleW
    /\ IdleC
    /\ IdleM
    /\ IdleS
    /\ IdleU
    /\ args \in {a \in Args : CeilDiv(a.audio_duration, a.chunk_duration) <= MaxChunks
                              \/ ~should_chunk(a.enable_chunking, a.audio_duration, a.chunk_duration)}
    /\ pc = "start"
    /\ chunks = <<>>
    /\ disk = {}
    /\ detected_language = ""
    /\ align_loaded = FALSE
    /\ fut = <<>>
    /\ results = <<>>
    /\ diarize = args.diarize
    /\ result = NoResult
    /\ merged = NoResult
    /\ ret = NoResult
    /\ faults = {}
    /\ job_status = "processing"
    /\ model_calls = [f \in Files |-> 0]
    /\ progress_events = <<>>
    /\ align_language = ""

\* Steps of transcribe_audio; the variables of the other operations stay.
Next ==
    \/ CheckFile /\ UNCHANGED restT
    \/ Split /\ UNCHANGED restT
    \/ LoadModel /\ UNCHANGED restT
    \/ DetectLanguage /\ UNCHANGED restT
    \/ LoadAlignModel /\ UNCHANGED restT
    \/ Submit /\ UNCHANGED restT
    \/ \E i \in 0..(MaxChunks - 1) : WorkerStart(i) /\ UNCHANGED restT
    \/ \E i \in 0..(MaxChunks - 1) : WorkerFinish(i) /\ UNCHANGED restT
    \/ \E i \in 0..(MaxChunks - 1) : Collect(i) /\ UNCHANGED restT
    \/ Cleanup /\ UNCHANGED restT
    \/ Merge /\ UNCHANGED restT
    \/ DiarizeChunked /\ UNCHANGED restT
    \/ WholeLoadModel /\ UNCHANGED restT
    \/ WholeTranscribe /\ UNCHANGED restT
    \/ WholeAlign /\ UNCHANGED restT
    \/ DiarizeWhole /\ UNCHANGED restT
    \/ SaveAndReturn /\ UNCHANGED restT

Spec == Init /\ [][Next]_vars

\* ------------------------------ merge_transcription_results as a pure function
\* The per-chunk results transcribe_chunk can produce for an extract of two
\* units at the offsets 0..MaxChunkStart.
ChunkResults ==
    {transcribe_chunk(a, 2, s, l, FALSE, o) :
        a \in Recordings, s \in 0..MaxChunkStart, l \in {"", "en"}, o \in {"ok", "raise"}}

RECURSIVE SeqsUpTo(_, _)
SeqsUpTo(S, n) ==
    IF n = 0 THEN {<<>>}
    ELSE LET shorter == SeqsUpTo(S, n - 1)
         IN  shorter \cup {Append(q, x) : q \in {r \in shorter : Len(r) = n - 1}, x \in S}

Orders(n) == {p \in [1..n -> 1..n] : \A i, j \in 1..n : p[i] = p[j] => i = j}

InitMerge ==
    /\ IdleR
    /\ IdleW
    /\ IdleC
    /\ IdleT
    /\ IdleS
    /\ IdleU
    /\ m_pc = "input"
    /\ m_results \in SeqsUpTo(ChunkResults, MaxResults)
    /\ m_perm = <<>>
    /\ m_out = NoResult
    /\ m_out_perm = NoResult

MergeCall ==
    /\ m_pc = "input"
    /\ m_out' = merge_transcription_results(m_results)
    /\ m_pc' = "merged"
    /\ UNCHANGED <<m_results, m_perm, m_out_perm>>

MergePermuted ==
    /\ m_pc = "merged"
    /\ \E p \in Orders(Len(m_results)) :
          m_perm' = [i \in 1..Len(m_results) |-> m_results[p[i]]]
    /\ m_out_perm' = merge_transcription_results(m_perm')
    /\ m_pc' = "done"
    /\ UNCHANGED <<m_results, m_out>>

NextMerge ==
    \/ MergeCall /\ UNCHANGED restM
    \/ MergePermuted /\ UNCHANGED restM

SpecMerge == InitMerge /\ [][NextMerge]_vars

Count(q, x) == Cardinality({i \in 1..Len(q) : q[i] = x})
SameSegments(q, r) == \A x \in Range(q) \cup Range(r) : Count(q, x) = Count(r, x)
NoSharedStart(rs) ==
    \A i, j \in 1..Len(rs) : i # j =>
        \A x \in Range(rs[i].segments), y \in Range(rs[j].segments) : x.start # y.start
FirstLanguage(rs) == IF rs = <<>> THEN "unknown" ELSE rs[1].language
Chars == {"a", " ", ".", "\n"}
Whitespace == {" ", "\n"}
Separators ==
    << <<".", "\n">>, <<".", " ">>, <<"\n", "\n">>, <<".">>, <<"!">>, <<"?">>, <<"\n">> >>

\* A slice bound as Python reads it: negative counts from the end, and both
\* ends are clipped to the text.
SliceIndex(i, n) == IF i < 0 THEN Max(i + n, 0) ELSE Min(i, n)
\* text[a:b]
Slice(text, a, b) ==
    LET lo == SliceIndex(a, Len(text))
        hi == SliceIndex(b, Len(text))
    IN  IF lo < hi THEN SubSeq(text, lo + 1, hi) ELSE <<>>

\* text.rfind(sep, a, b): the highest index at which sep lies inside
\* text[a:b], or -1.
RFind(text, sep, a, b) ==
    LET lo == SliceIndex(a, Len(text))
        hi == SliceIndex(b, Len(text))
        at == {i \in lo..(hi - Len(sep)) : SubSeq(text, i + 1, i + Len(sep)) = sep}
    IN  IF at = {} THEN 0 - 1 ELSE CHOOSE i \in at : \A j \in at : j <= i

\* str.strip()
RECURSIVE LStrip(_)
LStrip(t) == IF t # <<>> /\ t[1] \in Whitespace THEN LStrip(Tail(t)) ELSE t
RECURSIVE RStrip(_)
RStrip(t) ==
    IF t # <<>> /\ t[Len(t)] \in Whitespace THEN RStrip(SubSeq(t, 1, Len(t) - 1)) ELSE t
\* line 63 without the strip(): the slice as it is
Strip_None(t) == t

Strip(t) == RStrip(LStrip(t))

\* lines 56-60 cutting before the separator found, not after it
RECURSIVE CutAtSeparator_BeforeSeparator(_, _, _, _)
CutAtSeparator_BeforeSeparator(text, start, end, k) ==
    IF k > Len(Separators) THEN end
    ELSE LET last_sep == RFind(text, Separators[k], start, end)
         IN  IF last_sep # 0 - 1 THEN last_sep
             ELSE CutAtSeparator_BeforeSeparator(text, start, end, k + 1)

\* lines 56-60: the first separator of the list found in text[start:end]
\* decides; k is the position in the list the search stands at.
RECURSIVE CutAtSeparator(_, _, _, _)
CutAtSeparator(text, start, end, k) ==
    IF k > Len(Separators) THEN end
    ELSE LET last_sep == RFind(text, Separators[k], start, end)
         IN  IF last_sep # 0 - 1 THEN last_sep + Len(Separators[k])
             ELSE CutAtSeparator(text, start, end, k + 1)

\* lines 51-60 with a window one character longer than chunk_size
ChunkEnd_OneMore(text, start, chunk_size) ==
    LET end == Min(start + chunk_size + 1, Len(text))
    IN  IF end < Len(text) THEN CutAtSeparator(text, start, end, 1) ELSE end

\* lines 51-60
ChunkEnd(text, start, chunk_size) ==
    LET end == Min(start + chunk_size, Len(text))
    IN  IF end < Len(text) THEN CutAtSeparator(text, start, end, 1) ELSE end

\* line 68 without the floor start + 1
NextStart_NoFloor(start, end, chunk_overlap) == end - chunk_overlap

\* line 68
NextStart(start, end, chunk_overlap) == Max(end - chunk_overlap, start + 1)

\* lines 42-47 with the list `chunks` kept from one call to the next
SplitEnter_KeepsChunks ==
    /\ st_pc = "enter"
    /\ st_pc' = IF st_text = <<>> THEN "done" ELSE "loop"
    /\ st_start' = 0
    /\ UNCHANGED <<st_text, st_chunk_size, st_chunk_overlap, st_chunks, st_cuts, st_first>>

\* lines 42-47
SplitEnter ==
    /\ st_pc = "enter"
    /\ st_pc' = IF st_text = <<>> THEN "done" ELSE "loop"
    /\ st_start' = 0
    /\ st_chunks' = <<>>
    /\ UNCHANGED <<st_text, st_chunk_size, st_chunk_overlap, st_cuts, st_first>>

\* lines 49-68: one iteration of the while loop
SplitIterate ==
    /\ st_pc = "loop"
    /\ st_start < Len(st_text)
    /\ LET end == ChunkEnd(st_text, st_start, st_chunk_size)
           chunk == Strip(Slice(st_text, st_start, end))
       IN  /\ st_chunks' = IF chunk # <<>> THEN Append(st_chunks, chunk) ELSE st_chunks
           /\ st_cuts' = Append(st_cuts, [start |-> st_start, end |-> end])
           /\ st_start' = NextStart(st_start, end, st_chunk_overlap)
    /\ UNCHANGED <<st_pc, st_text, st_chunk_size, st_chunk_overlap, st_first>>

\* lines 49 and 70: the loop ends and the chunks are returned
SplitReturn ==
    /\ st_pc = "loop"
    /\ ~(st_start < Len(st_text))
    /\ st_pc' = "done"
    /\ UNCHANGED <<st_text, st_chunk_size, st_chunk_overlap, st_start, st_chunks, st_cuts,
                   st_first>>

\* The caller keeps what the call returned and calls again with the same
\* text, chunk_size and chunk_overlap.
SplitAgain ==
    /\ st_pc = "done"
    /\ ~st_first.called
    /\ st_first' = [called |-> TRUE, chunks |-> st_chunks]
    /\ st_pc' = "enter"
    /\ st_cuts' = <<>>
    /\ UNCHANGED <<st_text, st_chunk_size, st_chunk_overlap, st_start, st_chunks>>

TextsUpTo(n) == SeqsUpTo(Chars, n)

InitSplit ==
    /\ IdleR
    /\ IdleW
    /\ IdleC
    /\ IdleT
    /\ IdleM
    /\ IdleU
    /\ st_pc = "enter"
    /\ st_text \in TextsUpTo(MaxTextLen)
    /\ st_chunk_size \in 0..MaxChunkSize
    /\ st_chunk_overlap \in 0..MaxOverlap
    /\ st_start = 0
    /\ st_chunks = <<>>
    /\ st_cuts = <<>>
    /\ st_first = NoCall

NextSplit ==
    \/ SplitEnter /\ UNCHANGED restS
    \/ SplitIterate /\ UNCHANGED restS
    \/ SplitReturn /\ UNCHANGED restS
    \/ SplitAgain /\ UNCHANGED restS

SpecSplit == InitSplit /\ [][NextSplit]_vars

\* C10: split_text_into_chunks terminates for every text, chunk_size and
\* overlap: each next start is end - overlap but at least the previous
\* start + 1, so start grows at every iteration and the loop makes at most
\* one iteration per character.
C10_StartStrictlyIncreases ==
    /\ Len(st_cuts) <= Len(st_text)
    /\ \A k \in 1..(Len(st_cuts) - 1) :
          /\ st_cuts[k + 1].start > st_cuts[k].start
          /\ st_cuts[k + 1].start >= st_cuts[k].end - st_chunk_overlap
          /\ st_cuts[k + 1].start \in {st_cuts[k].end - st_chunk_overlap, st_cuts[k].start + 1}
    /\ (st_pc = "loop" /\ st_cuts # <<>>) => st_start > st_cuts[Len(st_cuts)].start
    /\ st_pc = "done" => st_start >= Len(st_text)

\* The overlap is at least the chunk size, the loop still advanced by the
\* floor start + 1 and ended.
C10_Witness ==
    /\ st_pc = "done"
    /\ st_chunk_size >= 1
    /\ st_chunk_overlap >= st_chunk_size
    /\ Len(st_cuts) >= 3
    /\ st_cuts[2].start = st_cuts[1].start + 1
    /\ st_cuts[2].start > st_cuts[1].end - st_chunk_overlap

\* C11 as stated: the empty text gives no chunk, and every text of exactly
\* one character gives exactly one chunk (read for the chunk sizes that can
\* hold a character, chunk_size >= 1).
C11_EmptyAndOneCharacter ==
    st_pc = "done" =>
        /\ st_text = <<>> => st_chunks = <<>>
        /\ (Len(st_text) = 1 /\ st_chunk_size >= 1) => Len(st_chunks) = 1

\* C11 (amended): the empty text gives no chunk; a text of one character that
\* is not whitespace gives, for every chunk_size >= 1 and every overlap,
\* exactly one chunk, which is that character; a text of one whitespace
\* character gives no chunk, because line 63 strips the slice and line 64
\* drops an empty chunk.
C11_EmptyAndOneVisibleCharacter ==
    st_pc = "done" =>
        /\ st_text = <<>> => st_chunks = <<>> /\ st_cuts = <<>>
        /\ (Len(st_text) = 1 /\ st_text[1] \notin Whitespace /\ st_chunk_size >= 1) =>
              st_chunks = << st_text >> /\ Len(st_cuts) = 1
        /\ (Len(st_text) = 1 /\ st_text[1] \in Whitespace) => st_chunks = <<>>

\* A one-character text was split, with an overlap larger than the text.
C11_Witness ==
    /\ st_pc = "done"
    /\ st_text = <<"a">>
    /\ st_chunk_overlap >= 2
    /\ st_chunks = << <<"a">> >>


\* ------------------------------------ summarize_text (summarize_text.py 73-301)
\* What a call of the language model (chat_completion_simple) does: it
\* returns a text, or it raises after its retries.
LLMOutcomes == {"ok", "timeout", "http_error"}
LLMFailures == LLMOutcomes \ {"ok"}

\* lines 109-121 with the except clause returning the same text for every
\* failure
summarize_chunk_NoReason(chunk, chunk_index, llm) ==
    IF llm = "ok" THEN [kind |-> "summary", of |-> chunk, index |-> chunk_index, reason |-> ""]
    ELSE [kind |-> "failed", of |-> <<>>, index |-> 0, reason |-> ""]

\* The language model answers a prompt with a text that depends on the prompt
\* only; the prompt of line 103 names the chunk, its index and the total.
\* When the call raises, summarize_chunk returns the placeholder of line 121,
\* which holds the text of the exception.
summarize_chunk(chunk, chunk_index, llm) ==
    IF llm = "ok" THEN [kind |-> "summary", of |-> chunk, index |-> chunk_index, reason |-> ""]
    ELSE [kind |-> "failed", of |-> <<>>, index |-> 0, reason |-> llm]

total_chunks == Len(st_chunks)

\* raise: summarize_text ends with the exception `what`
SuRaise(what) ==
    /\ su_pc' = "raised"
    /\ su_error' = what
    /\ UNCHANGED <<su_args, su_fut, su_results_dict, su_chunk_summaries, su_combined,
                   su_chunk_calls, su_reduce_calls, su_ret, su_llm, su_order, su_job>>

\* lines 157-170: the two checks, then the call of split_text_into_chunks
SuEnter ==
    /\ su_pc = "start"
    /\ IF ~su_args.api_key THEN SuRaise("no_api_key") /\ UNCHANGED varsS
       ELSE IF Strip(st_text) = <<>> THEN SuRaise("empty_text") /\ UNCHANGED varsS
       ELSE /\ su_pc' = "split"
            /\ st_pc' = "enter"
            /\ UNCHANGED <<st_text, st_chunk_size, st_chunk_overlap, st_start, st_chunks, st_cuts,
                           st_first>>
            /\ UNCHANGED <<su_args, su_fut, su_results_dict, su_chunk_summaries, su_combined,
                           su_chunk_calls, su_reduce_calls, su_ret, su_llm, su_order,
                           su_error, su_job>>

\* lines 172-201 with the single-chunk return of lines 180-190 left out
SuAfterSplit_NoSingle ==
    /\ su_pc = "split"
    /\ st_pc = "done"
    /\ IF st_chunks = <<>> THEN SuRaise("no_chunks")
       ELSE /\ su_pc' = IF su_args.enable_async /\ total_chunks > 1 THEN "submit" ELSE "sequential"
            /\ UNCHANGED <<su_args, su_fut, su_results_dict, su_chunk_summaries, su_combined,
                           su_chunk_calls, su_reduce_calls, su_ret, su_llm, su_order,
                           su_error, su_job>>
    /\ UNCHANGED varsS

\* lines 172-201
SuAfterSplit ==
    /\ su_pc = "split"
    /\ st_pc = "done"
    /\ IF st_chunks = <<>> THEN SuRaise("no_chunks")
       ELSE /\ su_pc' = IF total_chunks = 1 THEN "single"
                        ELSE IF su_args.enable_async THEN "submit" ELSE "sequential"
            /\ UNCHANGED <<su_args, su_fut, su_results_dict, su_chunk_summaries, su_combined,
                           su_chunk_calls, su_reduce_calls, su_ret, su_llm, su_order,
                           su_error, su_job>>
    /\ UNCHANGED varsS

\* lines 180-190: one chunk, its summary is returned
SuSingle ==
    /\ su_pc = "single"
    /\ \E llm \in LLMOutcomes :
          /\ su_ret' = summarize_chunk(st_chunks[1], 1, llm)
          /\ su_llm' = (1 :> llm) @@ su_llm
    /\ su_chunk_calls' = su_chunk_calls + 1
    /\ su_pc' = "returned"
    /\ UNCHANGED <<su_args, su_fut, su_results_dict, su_chunk_summaries, su_combined,
                   su_reduce_calls, su_order, su_error, su_job>>
    /\ UNCHANGED varsS

\* lines 203-216
SuSubmit ==
    /\ su_pc = "submit"
    /\ su_fut' = [i \in 1..total_chunks |-> [state |-> "pending", summary |-> NoSummary]]
    /\ su_pc' = "collect"
    /\ UNCHANGED <<su_args, su_results_dict, su_chunk_summaries, su_combined,
                   su_chunk_calls, su_reduce_calls, su_ret, su_llm, su_order,
                   su_error, su_job>>
    /\ UNCHANGED varsS

SuRunning == {i \in DOMAIN su_fut : su_fut[i].state = "running"}
SuPending == {i \in DOMAIN su_fut : su_fut[i].state = "pending"}

SuWorkerStart(i) ==
    /\ su_pc = "collect"
    /\ i \in SuPending
    /\ \A j \in SuPending : i <= j
    /\ Cardinality(SuRunning) < su_args.max_workers
    /\ su_fut' = [su_fut EXCEPT ![i].state = "running"]
    /\ UNCHANGED <<su_pc, su_args, su_results_dict, su_chunk_summaries, su_combined,
                   su_chunk_calls, su_reduce_calls, su_ret, su_llm, su_order,
                   su_error, su_job>>
    /\ UNCHANGED varsS

\* summarize_chunk in a pool thread: one call of the language model
SuWorkerFinish(i) ==
    /\ su_pc = "collect"
    /\ i \in SuRunning
    /\ \E llm \in LLMOutcomes :
          /\ su_fut' = [su_fut EXCEPT ![i] = [state |-> "done",
                                              summary |-> summarize_chunk(st_chunks[i], i, llm)]]
          /\ su_llm' = (i :> llm) @@ su_llm
    /\ su_chunk_calls' = su_chunk_calls + 1
    /\ UNCHANGED <<su_pc, su_args, su_results_dict, su_chunk_summaries, su_combined,
                   su_reduce_calls, su_ret, su_order, su_error, su_job>>
    /\ UNCHANGED varsS

\* lines 222-233: one iteration of the as_completed loop.  summarize_chunk
\* catches every Exception, so future.result() returns and the except clause
\* of lines 231-233 is not taken.
SuCollect(i) ==
    /\ su_pc = "collect"
    /\ i \in DOMAIN su_fut
    /\ su_fut[i].state = "done"
    /\ su_results_dict' = (i :> su_fut[i].summary) @@ su_results_dict
    /\ su_order' = Append(su_order, i)
    /\ su_fut' = [su_fut EXCEPT ![i].state = "collected"]
    /\ UNCHANGED <<su_pc, su_args, su_chunk_summaries, su_combined,
                   su_chunk_calls, su_reduce_calls, su_ret, su_llm, su_error, su_job>>
    /\ UNCHANGED varsS

\* line 236 as list(results_dict.values()): the summaries in the order they
\* were put into the dictionary
InIndexOrder_Completion(dict, i, n) == [k \in 1..Len(su_order) |-> dict[su_order[k]]]

\* line 236: [results_dict[i] for i in range(1, total_chunks + 1) if i in results_dict]
RECURSIVE InIndexOrder(_, _, _)
InIndexOrder(dict, i, n) ==
    IF i > n THEN <<>>
    ELSE (IF i \in DOMAIN dict THEN << dict[i] >> ELSE <<>>) \o InIndexOrder(dict, i + 1, n)

SuAssemble ==
    /\ su_pc = "collect"
    /\ \A i \in DOMAIN su_fut : su_fut[i].state = "collected"
    /\ su_chunk_summaries' = InIndexOrder(su_results_dict, 1, total_chunks)
    /\ su_pc' = "reduce"
    /\ UNCHANGED <<su_args, su_fut, su_results_dict, su_combined,
                   su_chunk_calls, su_reduce_calls, su_ret, su_llm, su_order,
                   su_error, su_job>>
    /\ UNCHANGED varsS

\* lines 239-252 with enumerate(chunks) counting from 0: the prompts of the
\* sequential loop name other indexes than those of the pool
SuSequential_IndexFromZero ==
    /\ su_pc = "sequential"
    /\ LET i == Len(su_chunk_summaries) + 1
       IN  /\ \E llm \in LLMOutcomes :
                 /\ su_chunk_summaries' = Append(su_chunk_summaries,
                                                 summarize_chunk(st_chunks[i], i - 1, llm))
                 /\ su_llm' = (i :> llm) @@ su_llm
           /\ su_pc' = IF i = total_chunks THEN "reduce" ELSE "sequential"
    /\ su_chunk_calls' = su_chunk_calls + 1
    /\ UNCHANGED <<su_args, su_fut, su_results_dict, su_combined, su_reduce_calls, su_ret,
                   su_order, su_error, su_job>>
    /\ UNCHANGED varsS

\* lines 239-252: the next chunk, in order
SuSequential ==
    /\ su_pc = "sequential"
    /\ LET i == Len(su_chunk_summaries) + 1
       IN  /\ \E llm \in LLMOutcomes :
                 /\ su_chunk_summaries' = Append(su_chunk_summaries,
                                                 summarize_chunk(st_chunks[i], i, llm))
                 /\ su_llm' = (i :> llm) @@ su_llm
           /\ su_pc' = IF i = total_chunks THEN "reduce" ELSE "sequential"
    /\ su_chunk_calls' = su_chunk_calls + 1
    /\ UNCHANGED <<su_args, su_fut, su_results_dict, su_combined, su_reduce_calls, su_ret,
                   su_order, su_error, su_job>>
    /\ UNCHANGED varsS

\* lines 262-265
Combine(summaries) == [i \in 1..Len(summaries) |-> [tag |-> i, summary |-> summaries[i]]]

\* lines 262-301 with the failure of the reduction call answered by a
\* placeholder, the way summarize_chunk answers the failure of its call
SuReduce_Placeholder ==
    /\ su_pc = "reduce"
    /\ su_combined' = Combine(su_chunk_summaries)
    /\ su_reduce_calls' = su_reduce_calls + 1
    /\ \E llm \in LLMOutcomes :
          /\ su_llm' = (0 :> llm) @@ su_llm
          /\ su_ret' = IF llm = "ok"
                       THEN [kind |-> "final", of |-> su_combined', index |-> 0, reason |-> ""]
                       ELSE [kind |-> "failed", of |-> <<>>, index |-> 0, reason |-> llm]
          /\ su_pc' = "returned"
          /\ UNCHANGED su_error
    /\ UNCHANGED <<su_args, su_fut, su_results_dict, su_chunk_summaries, su_chunk_calls,
                   su_order, su_job>>
    /\ UNCHANGED varsS

\* lines 262-301: the reduction call, recorded as call 0; its failure is
\* raised (line 301)
SuReduce ==
    /\ su_pc = "reduce"
    /\ su_combined' = Combine(su_chunk_summaries)
    /\ su_reduce_calls' = su_reduce_calls + 1
    /\ \E llm \in LLMOutcomes :
          /\ su_llm' = (0 :> llm) @@ su_llm
          /\ IF llm = "ok"
             THEN /\ su_ret' = [kind |-> "final", of |-> su_combined', index |-> 0, reason |-> ""]
                  /\ su_pc' = "returned"
                  /\ UNCHANGED su_error
             ELSE /\ su_pc' = "raised"
                  /\ su_error' = "reduction"
                  /\ UNCHANGED su_ret
    /\ UNCHANGED <<su_args, su_fut, su_results_dict, su_chunk_summaries, su_chunk_calls,
                   su_order, su_job>>
    /\ UNCHANGED varsS

\* The job thread that called summarize_text (src/web_app.py 1342-1368): the
\* summary is stored and written to a file and the status becomes completed;
\* an exception, of summarize_text or of the file write, is caught at line
\* 1365, which sets the status to error and records the message.
SuJobEnd ==
    /\ su_pc \in {"returned", "raised"}
    /\ su_args.caller = "job"
    /\ \/ /\ su_pc = "returned"
          /\ \/ su_job' = [status |-> "completed", error |-> "None", summary |-> su_ret]
             \/ su_job' = [status |-> "error", error |-> "write", summary |-> su_ret]
       \/ /\ su_pc = "raised"
          /\ su_job' = [status |-> "error", error |-> su_error, summary |-> NoSummary]
    /\ su_pc' = "job_done"
    /\ UNCHANGED <<su_args, su_fut, su_results_dict, su_chunk_summaries, su_combined,
                   su_chunk_calls, su_reduce_calls, su_ret, su_llm, su_order, su_error>>
    /\ UNCHANGED varsS

\* The callers: a job of the web application, which passes the key it found
\* and enable_async = True (lines 1333-1350), or a direct call.
SummarizeArgs ==
    {a \in [api_key : BOOLEAN, enable_async : BOOLEAN, max_workers : {MaxSumWorkers},
            caller : {"job", "direct"}] :
        a.caller = "job" => (a.api_key /\ a.enable_async)}

InitSummarize ==
    /\ IdleR
    /\ IdleW
    /\ IdleC
    /\ IdleT
    /\ IdleM
    /\ st_pc = "idle"
    /\ st_text \in SeqsUpTo({"a", " "}, MaxSumTextLen)
    /\ st_chunk_size \in 1..MaxChunkSize
    /\ st_chunk_overlap \in 0..MaxOverlap
    /\ st_start = 0
    /\ st_chunks = <<>>
    /\ st_cuts = <<>>
    /\ st_first = NoCall
    /\ su_pc = "start"
    /\ su_args \in SummarizeArgs
    /\ su_fut = <<>>
    /\ su_results_dict = <<>>
    /\ su_chunk_summaries = <<>>
    /\ su_combined = <<>>
    /\ su_chunk_calls = 0
    /\ su_reduce_calls = 0
    /\ su_ret = NoSummary
    /\ su_llm = <<>>
    /\ su_order = <<>>
    /\ su_error = ""
    /\ su_job = IF su_args.caller = "job"
                THEN [status |-> "processing", error |-> "None", summary |-> NoSummary]
                ELSE NoJob

NextSummarize ==
    \/ SuEnter /\ UNCHANGED restU
    \/ SplitEnter /\ UNCHANGED restS
    \/ SplitIterate /\ UNCHANGED restS
    \/ SplitReturn /\ UNCHANGED restS
    \/ SuAfterSplit /\ UNCHANGED restU
    \/ SuSingle /\ UNCHANGED restU
    \/ SuSubmit /\ UNCHANGED restU
    \/ \E i \in 1..MaxSumTextLen : SuWorkerStart(i) /\ UNCHANGED restU
    \/ \E i \in 1..MaxSumTextLen : SuWorkerFinish(i) /\ UNCHANGED restU
    \/ \E i \in 1..MaxSumTextLen : SuCollect(i) /\ UNCHANGED restU
    \/ SuAssemble /\ UNCHANGED restU
    \/ SuSequential /\ UNCHANGED restU
    \/ SuReduce /\ UNCHANGED restU
    \/ SuJobEnd /\ UNCHANGED restU

SpecSummarize == InitSummarize /\ [][NextSummarize]_vars

\* C9: a text of L characters without separators or whitespace, chunk size
\* S >= 1 and overlap 0 <= O < S, is split into 1 chunk if L <= S and into
\* ceil((L - S) / (S - O)) + 1 chunks otherwise; summarize_text makes that
\* many chunk summaries and, when there is more than one, one reduction call.
PlainText(t) == t # <<>> /\ \A i \in 1..Len(t) : t[i] = "a"
ExpectedChunks(L, S, O) == IF L <= S THEN 1 ELSE CeilDiv(L - S, S - O) + 1
C9_ChunkCount ==
    (/\ PlainText(st_text)
     /\ st_chunk_size >= 1
     /\ st_chunk_overlap < st_chunk_size
     /\ st_pc = "done") =>
        LET n == ExpectedChunks(Len(st_text), st_chunk_size, st_chunk_overlap)
        IN  /\ Len(st_chunks) = n
            /\ su_pc \in {"returned", "raised"} =>
                  /\ su_chunk_calls = n
                  /\ su_reduce_calls = (IF n > 1 THEN 1 ELSE 0)

\* summarize_text has ended, having split the text into chunks
SuEnded == su_pc \in {"returned", "raised", "job_done"}
SuSplitDone == st_pc = "done" /\ st_chunks # <<>> /\ su_pc # "split"

\* C12: with exactly one chunk summarize_text returns that chunk's summary
\* after exactly one language-model call and no reduction call; with M > 1
\* chunks it makes exactly M chunk calls and then exactly one reduction call.
C12_CallCounts ==
    /\ (SuSplitDone /\ total_chunks = 1) =>
          /\ su_reduce_calls = 0
          /\ su_chunk_calls <= 1
          /\ SuEnded =>
                /\ su_chunk_calls = 1
                /\ su_error = ""
                /\ su_ret = summarize_chunk(st_chunks[1], 1, su_llm[1])
    /\ (SuSplitDone /\ total_chunks > 1) =>
          /\ su_reduce_calls <= 1
          /\ su_chunk_calls <= total_chunks
          /\ su_reduce_calls = 1 => su_chunk_calls = total_chunks
          /\ SuEnded => (su_chunk_calls = total_chunks /\ su_reduce_calls = 1)

\* Both cases: a text of one chunk was summarized by one call (this state),
\* and texts of several chunks by as many calls and one reduction.
C12_Witness ==
    /\ su_pc = "returned"
    /\ total_chunks = 3
    /\ su_chunk_calls = 3
    /\ su_reduce_calls = 1
    /\ su_ret.kind = "final"

\* What chunk i contributes to the reduction, given what its call did
Contribution(i) == summarize_chunk(st_chunks[i], i, su_llm[i])
SuAssembled == su_pc \in {"reduce", "returned", "raised", "job_done"} /\ SuSplitDone

\* C13: when the language-model call of a chunk fails, the chunk's summary
\* is the placeholder that holds the failure's reason, summarize_text does
\* not raise because of it (it raises only when the reduction call fails),
\* every other chunk's summary is what its own call gave, and the reduction
\* runs over one entry per chunk.
C13_ChunkFailureAbsorbed ==
    (SuAssembled /\ \E i \in 1..total_chunks : i \in DOMAIN su_llm /\ su_llm[i] \in LLMFailures) =>
        IF total_chunks = 1
        THEN su_pc # "reduce" =>
                /\ su_error = ""
                /\ su_ret = [kind |-> "failed", of |-> <<>>, index |-> 0, reason |-> su_llm[1]]
        ELSE /\ Len(su_chunk_summaries) = total_chunks
             /\ \A i \in 1..total_chunks :
                   /\ su_llm[i] \in LLMFailures =>
                         su_chunk_summaries[i] =
                             [kind |-> "failed", of |-> <<>>, index |-> 0, reason |-> su_llm[i]]
                   /\ su_llm[i] = "ok" =>
                         su_chunk_summaries[i] =
                             [kind |-> "summary", of |-> st_chunks[i], index |-> i, reason |-> ""]
             /\ su_pc # "reduce" =>
                   /\ su_reduce_calls = 1
                   /\ Len(su_combined) = total_chunks
                   /\ su_error # "" => (su_error = "reduction" /\ su_llm[0] \in LLMFailures)
                   /\ su_llm[0] = "ok" => (su_error = "" /\ su_ret.kind = "final")

\* The call of the second of three chunks failed, the others' did not, and
\* the reduction gave the final summary.
C13_Witness ==
    /\ su_pc = "returned"
    /\ total_chunks = 3
    /\ su_llm[1] = "ok"
    /\ su_llm[2] = "http_error"
    /\ su_llm[3] = "ok"
    /\ su_ret.kind = "final"
    /\ su_ret.of[2].summary.reason = "http_error"

\* C14: whatever the order in which the concurrent chunk summarizations
\* complete, the document given to the reduction call lists exactly
\* total_chunks summaries in the order of the chunk index, the entry tagged i
\* being the summary of chunk i.
C14_CombinedInIndexOrder ==
    (SuSplitDone /\ su_reduce_calls = 1) =>
        /\ Len(su_combined) = total_chunks
        /\ \A i \in 1..total_chunks :
              /\ su_combined[i].tag = i
              /\ su_combined[i].summary = Contribution(i)

\* The three summarizations were collected in the order 3, 1, 2 and the
\* reduction was called.
C14_Witness ==
    /\ su_reduce_calls = 1
    /\ su_args.enable_async
    /\ su_order = <<3, 1, 2>>
    /\ Len(su_combined) = 3

\* C15: when the reduction call fails, summarize_text raises (it returns
\* neither a placeholder nor another summary), and the job that called it
\* ends with the status error and the message of the exception.
C15_ReductionFailureRaised ==
    (0 \in DOMAIN su_llm /\ su_llm[0] \in LLMFailures) =>
        /\ su_pc \in {"raised", "job_done"}
        /\ su_error = "reduction"
        /\ su_ret = NoSummary
        /\ su_pc = "job_done" =>
              /\ su_job.status = "error"
              /\ su_job.error = "reduction"
              /\ su_job.summary = NoSummary

\* Every chunk was summarized, the reduction call failed, and the job ended.
C15_Witness ==
    /\ su_pc = "job_done"
    /\ total_chunks >= 2
    /\ \A i \in 1..total_chunks : su_llm[i] = "ok"
    /\ su_llm[0] = "timeout"
    /\ su_job.status = "error"


\* ------------------------------------------------------------------ claims
Unlabelled(segs) == [i \in 1..Len(segs) |-> [segs[i] EXCEPT !.speaker = ""]]
Finished(i) == i \in DOMAIN fut /\ fut[i].state \in {"done", "collected"}
SplitDone == pc \notin {"start", "decide"} /\ "no_file" \notin faults

\* C1: in every chunk result, each segment's and each word's start and end
\* are the value the service returned plus the chunk's start offset: the
\* offset is added exactly once, whatever the alignment did.
ShiftedOnce(x, offset) ==
    x.start = x.loc_start + offset /\ x.end = x.loc_end + offset
C1_OffsetAddedOnce ==
    \A i \in DOMAIN fut : Finished(i) =>
        \A k \in 1..Len(fut[i].result.segments) :
            LET seg == fut[i].result.segments[k]
            IN  /\ ShiftedOnce(seg, chunks[i + 1].start)
                /\ \A w \in 1..Len(seg.words) : ShiftedOnce(seg.words[w], chunks[i + 1].start)

\* C2: with chunking enabled and the extraction tool working, the audio is
\* processed as one span [0, D) if D <= 1.5 C; otherwise as ceil(D / C) spans,
\* the first starting at 0, each starting where the previous one ends, all of
\* length C except the last, which ends at D.
C2_ChunkerSpans ==
    (SplitDone /\ args.enable_chunking /\ "ffmpeg" \notin faults) =>
        LET D == args.audio_duration
            C == args.chunk_duration
            n == Len(chunks)
        IN  IF 2 * D <= 3 * C
            THEN n = 1 /\ chunks[1].start = 0 /\ chunks[1].end = D
            ELSE /\ n = CeilDiv(D, C)
                 /\ chunks[1].start = 0
                 /\ \A i \in 1..(n - 1) :
                        /\ chunks[i + 1].start = chunks[i].end
                        /\ chunks[i].end - chunks[i].start = C
                 /\ chunks[n].end = D
                 /\ chunks[n].end - chunks[n].start <= C

\* Three spans are cut, the last one shorter than the others.
C2_Witness ==
    /\ pc = "load_model"
    /\ "ffmpeg" \notin faults
    /\ Len(chunks) = 3
    /\ chunks[3].end - chunks[3].start < args.chunk_duration

\* C3: on the chunked path the transcript returned is the merger's output
\* over the per-chunk results, with speaker labels if diarization ran.
C3_ReturnsMergedChunks ==
    (pc = "returned" /\ IsChunked) =>
        /\ Unlabelled(ret.segments) = Unlabelled(merged.segments)
        /\ \A i \in 1..Len(ret.segments) :
              \E j \in DOMAIN fut : Unlabelled(<< ret.segments[i] >>)[1] \in Range(fut[j].result.segments)

\* C4: if the transcription of one of N >= 2 chunks raises and nothing else
\* fails, transcribe_audio returns, the transcript holds the segments of
\* every other chunk in order of start, and the job is not in error.
FailedChunks ==
    {i \in DOMAIN fut : fut[i].outcome = "raise"} \cup (IF "detect" \in faults THEN {0} ELSE {})
C4_OneChunkFails ==
    (/\ Terminal
     /\ IsChunked
     /\ NumChunks >= 2
     /\ Cardinality(FailedChunks) = 1
     /\ faults \subseteq {"detect"}) =>
        /\ pc = "returned"
        /\ job_status # "error"
        /\ Sorted(ret.segments)
        /\ \A j \in DOMAIN fut : j \notin FailedChunks =>
              Range(fut[j].result.segments) \subseteq Range(Unlabelled(ret.segments))

\* C5: the list handed to merge_transcription_results is in submission
\* order: position i holds the result of the chunk with index i.
C5_ResultsInSubmissionOrder ==
    pc = "merge" => \A k \in 1..Len(results) : results[k].idx = k - 1

\* C7: every transcript returned is ordered by start, and every segment of
\* it has start <= end.
C7_ReturnedSorted ==
    pc = "returned" =>
        /\ Sorted(ret.segments)
        /\ \A i \in 1..Len(ret.segments) : ret.segments[i].start <= ret.segments[i].end

\* C8: no temporary chunk file is left when transcribe_audio exits, by
\* return or by exception.
C8_TempFilesDeleted == Terminal => disk = {}

\* ------------------------------------- chat_completion (chat_completion.py 10-164)
\* What one requests.post of lines 118-130 can do: answer 200 with a JSON
\* body, run into the timeout, fail to connect, answer with a client or a
\* server error status (raise_for_status raises HTTPError for both), or
\* answer 200 with a body that is not JSON.
RequestOutcomes == {"ok", "timeout", "connection", "http_4xx", "http_5xx", "bad_json"}

\* The except clauses that retry, with HTTPError among them
RetriedOutcomes_AlsoClientError == {"timeout", "connection", "http_4xx"}

\* The outcomes whose except clause retries: Timeout (lines 132-138) and
\* the other RequestExceptions (lines 152-158).  HTTPError is a
\* RequestException too, but its own clause (lines 141-150) comes first.
RetriedOutcomes == {"timeout", "connection"}

\* `if attempt < retry_count - 1` taken as `attempt < retry_count`
CanRetry_OneMore(attempt, retry_count) == attempt < retry_count

\* lines 134 and 154
CanRetry(attempt, retry_count) == attempt < retry_count - 1

\* The exception each outcome ends in when it is not retried
RaisedFor(outcome) ==
    CASE outcome = "timeout" -> "timeout"
      [] outcome = "connection" -> "request_failed"
      [] outcome \in {"http_4xx", "http_5xx"} -> "http_error"
      [] OTHER -> "json_error"

CcEnd(pc_, ret_, exc_) ==
    /\ cc_pc' = pc_
    /\ cc_ret' = ret_
    /\ cc_exc' = exc_

\* lines 101-111: the messages are validated before the first request
CcValidate ==
    /\ cc_pc = "validate"
    /\ IF cc_args.messages_ok
       THEN CcEnd("loop", cc_ret, cc_exc)
       ELSE CcEnd("raised", cc_ret, "ValueError")
    /\ UNCHANGED <<cc_args, cc_attempt, cc_last_exception, cc_requests, cc_sleeps, cc_net>>

\* lines 115-161: one iteration of the loop, with the sleep of the except
\* clause that retries.  A body that is not JSON raises an exception that
\* is a RequestException in the newer releases of the HTTP library (retried
\* by lines 152-158) and only a json.JSONDecodeError in the older ones
\* (raised by lines 160-161): both are possible.
CcAttempt ==
    /\ cc_pc = "loop"
    /\ cc_attempt < cc_args.retry_count
    /\ cc_requests' = cc_requests + 1
    /\ \E outcome \in RequestOutcomes, json_is_request_exception \in BOOLEAN :
          /\ cc_net' = Append(cc_net, outcome)
          /\ IF outcome = "ok"
             THEN /\ CcEnd("returned", cc_requests', cc_exc)
                  /\ UNCHANGED <<cc_attempt, cc_last_exception, cc_sleeps>>
             ELSE IF outcome \in RetriedOutcomes
                     \/ (outcome = "bad_json" /\ json_is_request_exception)
             THEN /\ cc_last_exception' = RaisedFor(outcome)
                  /\ IF CanRetry(cc_attempt, cc_args.retry_count)
                     THEN /\ cc_sleeps' = Append(cc_sleeps, cc_args.retry_delay)
                          /\ cc_attempt' = cc_attempt + 1
                          /\ CcEnd("loop", cc_ret, cc_exc)
                     ELSE /\ CcEnd("raised", cc_ret,
                                   IF outcome = "timeout" THEN "timeout" ELSE "request_failed")
                          /\ UNCHANGED <<cc_attempt, cc_sleeps>>
             ELSE /\ CcEnd("raised", cc_ret, RaisedFor(outcome))
                  /\ UNCHANGED <<cc_attempt, cc_last_exception, cc_sleeps>>
    /\ UNCHANGED cc_args

\* lines 163-164: the loop ran out; without an exception kept the function
\* ends and returns None
CcLoopEnd ==
    /\ cc_pc = "loop"
    /\ ~(cc_attempt < cc_args.retry_count)
    /\ IF cc_last_exception # "" THEN CcEnd("raised", cc_ret, cc_last_exception)
       ELSE CcEnd("returned", 0, cc_exc)
    /\ UNCHANGED <<cc_args, cc_attempt, cc_last_exception, cc_requests, cc_sleeps, cc_net>>

InitChat ==
    /\ IdleR
    /\ IdleW
    /\ IdleT
    /\ IdleM
    /\ IdleS
    /\ IdleU
    /\ cc_pc = "validate"
    /\ cc_args \in [retry_count : 0..MaxRetryCount, retry_delay : 1..MaxRetryDelay,
                    messages_ok : BOOLEAN]
    /\ cc_attempt = 0
    /\ cc_last_exception = ""
    /\ cc_requests = 0
    /\ cc_sleeps = <<>>
    /\ cc_net = <<>>
    /\ cc_ret = 0
    /\ cc_exc = ""

NextChat ==
    \/ CcValidate /\ UNCHANGED restC
    \/ CcAttempt /\ UNCHANGED restC
    \/ CcLoopEnd /\ UNCHANGED restC

SpecChat == InitChat /\ [][NextChat]_vars

TransientErrors == {"timeout", "connection"}
CcEnded == cc_pc \in {"returned", "raised"}
AllBefore(k, S) == \A i \in 1..(k - 1) : cc_net[i] \in S
FixedWaits(k) == [i \in 1..k |-> cc_args.retry_delay]

\* C16: for retry_count = n >= 1, when every attempt fails with a timeout or
\* a connection error chat_completion makes exactly n requests, waits
\* retry_delay between consecutive attempts (n - 1 waits, none after the
\* last) and raises; when attempt k <= n is the first to succeed it returns
\* that response after exactly k requests (and k - 1 waits).
C16_RetriesThenRaises ==
    (cc_args.retry_count >= 1 /\ cc_pc # "validate" /\ cc_args.messages_ok) =>
        LET n == cc_args.retry_count
            k == Len(cc_net)
        IN  /\ cc_requests = k
            /\ k <= n
            /\ (AllBefore(k + 1, TransientErrors) /\ cc_pc = "loop") =>
                  (k < n /\ cc_sleeps = FixedWaits(k))
            /\ (AllBefore(k + 1, TransientErrors) /\ CcEnded) =>
                  /\ cc_pc = "raised"
                  /\ k = n
                  /\ cc_sleeps = FixedWaits(n - 1)
                  /\ cc_exc \in {"timeout", "request_failed"}
            /\ (k >= 1 /\ AllBefore(k, TransientErrors) /\ cc_net[k] = "ok") =>
                  /\ cc_pc = "returned"
                  /\ cc_ret = k
                  /\ cc_sleeps = FixedWaits(k - 1)

\* Three attempts failed, a timeout, a connection error and a timeout, and
\* the call raised after two waits.
C16_Witness ==
    /\ cc_pc = "raised"
    /\ cc_args.retry_count = 3
    /\ cc_net = <<"timeout", "connection", "timeout">>
    /\ Len(cc_sleeps) = 2

\* C17: a client-error (4xx) response ends the call: the error is raised
\* after that request, no further request is made and no retry delay is
\* waited after it, whatever retry_count is.
C17_ClientErrorNotRetried ==
    \A i \in 1..Len(cc_net) :
        cc_net[i] = "http_4xx" =>
            /\ i = Len(cc_net)
            /\ cc_pc = "raised"
            /\ cc_exc = "http_error"
            /\ cc_requests = i
            /\ Len(cc_sleeps) = i - 1

\* With three attempts allowed, the second request, made after a timeout, got
\* a client error and the call raised.
C17_Witness ==
    /\ cc_pc = "raised"
    /\ cc_args.retry_count = 3
    /\ cc_net = <<"timeout", "http_4xx">>
    /\ cc_sleeps = <<cc_args.retry_delay>>

\* --------------------------------------------- the jobs of src/web_app.py
\* A task id is the second of the clock at which /process was handled (line
\* 1029).  tasks and progress_queues are the two module-level dictionaries.
\* Of a record the fields status, step and error are kept, of an event of a
\* queue the fields step and status: the progress figure and the message,
\* which are stored and sent along with the step, and the results are left
\* out.  A stage calls update_progress several times in a row with the same
\* step; the run is kept as one call.  process_youtube_video and
\* process_podcast_rss have the same stages, the same calls and the same
\* handlers, and one thread body stands for both.  End is the None that
\* line 1373 puts.
End == [step |-> "None", status |-> "None"]

\* lines 1032-1045
NewTask == [status |-> "processing", step |-> "download", error |-> "None"]

World == [tasks |-> tasks, progress_queues |-> progress_queues]

\* lines 1067-1082, applied to the dictionaries w
update_progress(w, task_id, step) ==
    LET t == [w.tasks EXCEPT ![task_id].step = step]
    IN  [tasks |-> t,
         progress_queues |->
            IF task_id \in DOMAIN w.progress_queues
            THEN [w.progress_queues EXCEPT
                     ![task_id] = Append(@, [step |-> step, status |-> t[task_id].status])]
            ELSE w.progress_queues]

Write(w) ==
    /\ tasks' = w.tasks
    /\ progress_queues' = w.progress_queues

\* line 1029: task_id = f"task_{int(time.time())}"
TaskId(now) == now

\* time passes
Tick ==
    /\ wa_now < MaxClock
    /\ wa_now' = wa_now + 1
    /\ UNCHANGED <<tasks, progress_queues, wa_jobs, wa_responses>>

\* lines 1014-1064: the handler of POST /process
process_video ==
    /\ Len(wa_responses) < MaxJobs
    /\ \E url_given \in BOOLEAN :
          IF ~url_given
          THEN /\ wa_responses' = Append(wa_responses, "400")
               /\ UNCHANGED <<tasks, progress_queues, wa_jobs, wa_now>>
          ELSE LET task_id == TaskId(wa_now)
               IN  /\ tasks' = (task_id :> NewTask) @@ tasks
                   /\ progress_queues' = (task_id :> <<>>) @@ progress_queues
                   /\ wa_jobs' = Append(wa_jobs, [pc |-> "download", task_id |-> task_id,
                                                  stage |-> "download", exc |-> ""])
                   /\ wa_responses' = Append(wa_responses, "task")
                   /\ UNCHANGED wa_now

\* The thread of job j, which has announced the step `stage_`, goes to
\* `pc_`, and to the except clause when `exc_` is an exception.
JobGoes(j, stage_, pc_, exc_) ==
    wa_jobs' = [wa_jobs EXCEPT ![j].pc = IF exc_ = "" THEN pc_ ELSE "except",
                               ![j].stage = stage_,
                               ![j].exc = exc_]

JobAt(j, pc_) == j \in DOMAIN wa_jobs /\ wa_jobs[j].pc = pc_

\* What the download ends in: a file, or no file / an exception (the feed
\* cannot be parsed, has no episode or no audio URL, the request fails).
DownloadOutcomes == {"file", "fetch_failed"}

\* lines 1087-1122 (process_youtube_video) and 1378-1459 (process_podcast_rss)
JobDownload(j) ==
    /\ JobAt(j, "download")
    /\ Write(update_progress(World, wa_jobs[j].task_id, "download"))
    /\ \E outcome \in DownloadOutcomes :
          JobGoes(j, "download", "transcribe", IF outcome = "file" THEN "" ELSE outcome)
    /\ UNCHANGED <<wa_now, wa_responses>>

\* What the call of transcribe_audio ends in (src/src/transcribe_audio.py):
\* a transcript, or one of its exceptions: the file is missing (339-341), a
\* model cannot be loaded or the whole file cannot be transcribed or saved
\* (425-439, 561-580, 672-688), the transcription of the first chunk, which
\* detects the language, fails (444-445).
TranscribeOutcomes == {"transcript", "no_file", "load_model", "detect"}

\* lines 1124-1328: the duration is probed (get_audio_duration returns 0.0
\* when it cannot), transcribe_audio is called, the text is extracted and
\* written to a file; the failures of translation and PDF are caught
JobTranscribe(j) ==
    /\ JobAt(j, "transcribe")
    /\ Write(update_progress(World, wa_jobs[j].task_id, "transcribe"))
    /\ \E outcome \in TranscribeOutcomes :
          JobGoes(j, "transcribe", "summarize", IF outcome = "transcript" THEN "" ELSE outcome)
    /\ UNCHANGED <<wa_now, wa_responses>>

\* What the summary step ends in: there is no API key and the step is
\* skipped (1334-1337), or summarize_text is called and returns a summary,
\* also when the summaries of some chunks are placeholders, or raises: the
\* transcript has no text (summarize_text.py 163-164), the reduction call
\* fails (301).
SummarizeOutcomes ==
    {"no_api_key", "summary", "summary_of_placeholders", "empty_text", "reduction"}
SummarizeRaises == {"empty_text", "reduction"}

\* lines 1330-1360
JobSummarize(j) ==
    /\ JobAt(j, "summarize")
    /\ Write(update_progress(World, wa_jobs[j].task_id, "summarize"))
    /\ \E outcome \in SummarizeOutcomes :
          JobGoes(j, "summarize", "set_completed", IF outcome \in SummarizeRaises THEN outcome ELSE "")
    /\ UNCHANGED <<wa_now, wa_responses>>

\* line 1362 / 1695
JobSetCompleted(j) ==
    /\ JobAt(j, "set_completed")
    /\ tasks' = [tasks EXCEPT ![wa_jobs[j].task_id].status = "completed"]
    /\ JobGoes(j, wa_jobs[j].stage, "announce", "")
    /\ UNCHANGED <<progress_queues, wa_now, wa_responses>>

\* line 1363 / 1696
JobAnnounce(j) ==
    /\ JobAt(j, "announce")
    /\ Write(update_progress(World, wa_jobs[j].task_id, "completed"))
    /\ JobGoes(j, "completed", "finally", "")
    /\ UNCHANGED <<wa_now, wa_responses>>

\* lines 1365-1367 / 1698-1700: the except clause stores status and message
JobExcept(j) ==
    /\ JobAt(j, "except")
    /\ tasks' = [tasks EXCEPT ![wa_jobs[j].task_id].status = "error",
                              ![wa_jobs[j].task_id].error = wa_jobs[j].exc]
    /\ wa_jobs' = [wa_jobs EXCEPT ![j].pc = "announce_error"]
    /\ UNCHANGED <<progress_queues, wa_now, wa_responses>>

\* line 1368 / 1701
JobAnnounceError(j) ==
    /\ JobAt(j, "announce_error")
    /\ Write(update_progress(World, wa_jobs[j].task_id, "error"))
    /\ wa_jobs' = [wa_jobs EXCEPT ![j].pc = "finally", ![j].stage = "error"]
    /\ UNCHANGED <<wa_now, wa_responses>>

\* lines 1370-1373 / 1703-1706
JobFinally(j) ==
    /\ JobAt(j, "finally")
    /\ LET id == wa_jobs[j].task_id
       IN  progress_queues' = IF id \in DOMAIN progress_queues
                              THEN [progress_queues EXCEPT ![id] = Append(@, End)]
                              ELSE progress_queues
    /\ wa_jobs' = [wa_jobs EXCEPT ![j].pc = "done"]
    /\ UNCHANGED <<tasks, wa_now, wa_responses>>

InitJobs ==
    /\ IdleR
    /\ IdleT
    /\ IdleM
    /\ IdleS
    /\ IdleU
    /\ IdleC
    /\ wa_now = 0
    /\ tasks = <<>>
    /\ progress_queues = <<>>
    /\ wa_jobs = <<>>
    /\ wa_responses = <<>>

NextJobs ==
    \/ Tick /\ UNCHANGED restW
    \/ process_video /\ UNCHANGED restW
    \/ \E j \in 1..MaxJobs : JobDownload(j) /\ UNCHANGED restW
    \/ \E j \in 1..MaxJobs : JobTranscribe(j) /\ UNCHANGED restW
    \/ \E j \in 1..MaxJobs : JobSummarize(j) /\ UNCHANGED restW
    \/ \E j \in 1..MaxJobs : JobSetCompleted(j) /\ UNCHANGED restW
    \/ \E j \in 1..MaxJobs : JobAnnounce(j) /\ UNCHANGED restW
    \/ \E j \in 1..MaxJobs : JobExcept(j) /\ UNCHANGED restW
    \/ \E j \in 1..MaxJobs : JobAnnounceError(j) /\ UNCHANGED restW
    \/ \E j \in 1..MaxJobs : JobFinally(j) /\ UNCHANGED restW

SpecJobs == InitJobs /\ [][NextJobs]_vars

TerminalStatus == {"completed", "error"}

\* C18: the record of every job gets exactly one terminal status, completed
\* or error, which never changes afterwards, and the record holds an error
\* message if and only if its status is error.  (These are the parts of the
\* claim a finite run can break; that the status is set at all is its
\* liveness part.)
C18_StatusSettlesOnce ==
    [][/\ \A t \in DOMAIN tasks :
             /\ (tasks[t].error # "None") <=> (tasks[t].status = "error")
             /\ tasks[t].status \in TerminalStatus => tasks'[t].status = tasks[t].status
       /\ \A j \in DOMAIN wa_jobs :
             wa_jobs[j].pc = "done" => tasks[wa_jobs[j].task_id].status \in TerminalStatus
      ]_vars

\* The place of a step in the pipeline
StageRank(step) ==
    CASE step = "download" -> 0
      [] step = "transcribe" -> 1
      [] step = "summarize" -> 2
      [] OTHER -> 3

\* The failures of one unit, which the stage owning the unit has to absorb
UnitFailures == {"detect"}

\* C19: the stage of a job only moves forward (download, transcribe,
\* summarize, then completed or error) and never returns to an earlier one;
\* the job fails only on an unrecoverable error, never because the
\* transcription of one segment or the summarization of one chunk failed.
\* The stage of a job is the step its thread announced last.
C19_StagesOnlyForward ==
    [][\A j \in DOMAIN wa_jobs :
          /\ StageRank(wa_jobs'[j].stage) >= StageRank(wa_jobs[j].stage)
          /\ wa_jobs[j].stage \in TerminalStatus => wa_jobs'[j].stage = wa_jobs[j].stage
          /\ wa_jobs'[j].stage = "error" => wa_jobs[j].exc \notin UnitFailures
      ]_vars

\* ------------------------------------------- the two calls, one or the other
\* A behaviour is a call of transcribe_audio or a call of summarize_text.
InitEarly == Init \/ InitSummarize

NextEarly == Next \/ NextSummarize

SpecEarly == InitEarly /\ [][NextEarly]_vars

\* C20: errors about a missing resource are raised before any work is given
\* out.  transcribe_audio on a file that does not exist raises before any
\* probe, split, model load or submission to a worker; summarize_text without
\* an API key, or with an empty or whitespace-only text, raises before any
\* call of the language model.
C20_MissingResourceRaisedEarly ==
    /\ "no_file" \in faults =>
          /\ pc = "raised"
          /\ faults = {"no_file"}
          /\ chunks = <<>>
          /\ disk = {}
          /\ ~align_loaded
          /\ detected_language = ""
          /\ fut = <<>>
          /\ results = <<>>
          /\ result = NoResult
    /\ (su_pc \notin {"idle", "start"} /\ (~su_args.api_key \/ Strip(st_text) = <<>>)) =>
          /\ su_pc \in {"raised", "job_done"}
          /\ su_error = IF ~su_args.api_key THEN "no_api_key" ELSE "empty_text"
          /\ st_pc = "idle"
          /\ su_fut = <<>>
          /\ su_chunk_calls = 0
          /\ su_reduce_calls = 0
          /\ su_llm = <<>>
          /\ su_ret = NoSummary

\* summarize_text was called without a key on a text that could have been
\* summarized, and has raised.
C20_Witness ==
    /\ su_pc = "raised"
    /\ su_error = "no_api_key"
    /\ st_text = <<"a", " ", "a">>
    /\ su_llm = <<>>

\* ------------------------------------------- further claims on the chunked path
\* C21: if the extraction tool is missing or fails on any span, the first or
\* a later one, the spans returned are the whole file as one unsplit span
\* (file, 0, duration), and nothing is raised; the spans returned always
\* cover [0, duration).
C21_ExtractionFailureFallsBack ==
    (SplitDone /\ IsChunked) =>
        /\ "ffmpeg" \in faults => chunks = << Span(audio_file, 0, args.audio_duration) >>
        /\ chunks # <<>>
        /\ chunks[1].start = 0
        /\ chunks[Len(chunks)].end = args.audio_duration
        /\ \A i \in 1..(Len(chunks) - 1) : chunks[i + 1].start = chunks[i].end

\* C24: the language of the transcript merge_transcription_results returns is
\* the language of the first result of the list that is not "unknown", and
\* "unknown" when every result is "unknown" or the list is empty.
RECURSIVE FirstKnownLanguage(_)
FirstKnownLanguage(rs) ==
    IF rs = <<>> THEN "unknown"
    ELSE IF rs[1].language # "unknown" THEN rs[1].language
    ELSE FirstKnownLanguage(Tail(rs))
C24_FirstKnownLanguage ==
    m_pc \in {"merged", "done"} => m_out.language = FirstKnownLanguage(m_results)

\* C22: transcribe_chunk never raises: when loading or transcribing a segment
\* fails, its result has no segment and the language "unknown"; and the
\* failure of one segment, the first one transcribed for the language
\* included, does not abort the transcription job.
C22_SegmentFailureAbsorbed ==
    /\ \A i \in DOMAIN fut :
          (Finished(i) /\ fut[i].outcome = "raise") =>
              fut[i].result = [segments |-> <<>>, language |-> "unknown"]
    /\ "detect" \notin faults

\* C23: with no language given on the chunked path, the first segment has
\* been transcribed, and nothing else, when the segments are submitted to the
\* pool; the language found is the one every worker is given and the one
\* the alignment model is loaded for.
C23_LanguageDetectedFirst ==
    (pc # "idle" /\ IsChunked /\ args.language = "") =>
        /\ pc \in {"start", "decide", "load_model", "detect"} => fut = <<>>
        /\ fut # <<>> =>
              /\ detected_language \in DetectedLanguages
              /\ align_language = detected_language
              /\ \A i \in DOMAIN fut :
                    /\ fut[i].language = detected_language
                    /\ Finished(i) => fut[i].result.language = detected_language
              /\ (\A i \in DOMAIN fut : fut[i].state = "pending") =>
                    model_calls = [f \in Files |-> IF f = chunks[1].file THEN 1 ELSE 0]

\* No language was given, the first chunk was found to be in "zh", and a
\* worker has transcribed a later chunk in that language.
C23_Witness ==
    /\ pc = "collect"
    /\ args.language = ""
    /\ detected_language = "zh"
    /\ align_language = "zh"
    /\ Len(chunks) = 3
    /\ Finished(2)
    /\ fut[2].outcome = "ok"
    /\ fut[2].result.language = "zh"

\* C25: when diarization is asked for and no credential is given, the
\* diarization model is never run (it would label the segments or raise),
\* transcribe_audio does not raise because of it, and the transcript it
\* returns has no speaker label.
NoSpeaker(segs) == \A i \in 1..Len(segs) : segs[i].speaker = ""
C25_NoCredentialNoDiarization ==
    (pc # "idle" /\ args.diarize /\ ~args.hf_token) =>
        /\ "diarize" \notin faults
        /\ NoSpeaker(result.segments)
        /\ NoSpeaker(ret.segments)
        /\ pc \in {"w_load", "w_transcribe", "w_align", "save", "returned"} /\ IsChunked => ~diarize

\* Diarization was asked for without a credential, on the chunked path, and
\* the transcript was returned.
C25_Witness ==
    /\ pc = "returned"
    /\ args.diarize
    /\ ~args.hf_token
    /\ IsChunked
    /\ ret.segments # <<>>
    /\ NoSpeaker(ret.segments)

\* C28: on the chunked path model.transcribe is called exactly once for each
\* audio segment, N times for N segments, whether or not a language was
\* given: never twice on a segment, never on anything that is not a segment,
\* and once on every segment whose transcription did not fail.
ChunkFiles == {chunks[i].file : i \in 1..Len(chunks)}
C28_OneCallPerSegment ==
    (pc # "idle" /\ IsChunked) =>
        /\ \A f \in Files : model_calls[f] <= (IF f \in ChunkFiles THEN 1 ELSE 0)
        /\ \A i \in DOMAIN fut :
              (Finished(i) /\ fut[i].outcome # "raise") => model_calls[chunks[i + 1].file] = 1

\* The events of the segments: those whose message names two numbers.
ChunkEvents == SelectSeq(progress_events, LAMBDA e : Len(e.message) = 2)
CollectDone == pc \in {"merge", "diarize", "w_load", "w_transcribe", "w_align", "w_diarize",
                       "save", "returned"} /\ IsChunked

TrNone == "None"
Translated(x) == <<"translated", x>>
TrTexts == tr_args.texts

\* lines 281-283
NumBatches == CeilDiv(Len(TrTexts), tr_args.batch_size)
batch_idx(k) == (k - 1) * tr_args.batch_size
batch_texts(k) == Slice(TrTexts, batch_idx(k), batch_idx(k) + tr_args.batch_size)

TranslateOutcomes == {"ok", "failed"}

\* translate_text on a list and the extraction of the texts (lines 291-301,
\* 223-232, 239-247)
TranslateAll(texts) == [i \in 1..Len(texts) |-> Translated(texts[i])]

\* lines 288-307: the translations, or the batch itself when translate_text
\* raised
translate_batch(k, outcome) ==
    IF outcome = "ok" THEN TranslateAll(batch_texts(k)) ELSE batch_texts(k)

\* lines 321-324: translated_texts[start_idx + i] = translated_text
Store(list, start_idx, translated_batch) ==
    [j \in 1..Len(list) |->
        IF j - 1 >= start_idx /\ j - 1 - start_idx < Len(translated_batch)
        THEN translated_batch[j - start_idx]
        ELSE list[j]]

\* lines 331-333
FillWithOriginals(list, texts) ==
    [j \in 1..Len(list) |-> IF list[j] = TrNone THEN texts[j] ELSE list[j]]

\* lines 273-286 and 309-315: the empty list is returned at once, a
\* list of at most batch_size * max_workers texts goes to translate_list, and
\* for a longer one every batch is submitted to the pool.
TrEnter ==
    /\ tr_pc = "start"
    /\ IF TrTexts = <<>>
       THEN /\ tr_ret' = <<>>
            /\ tr_pc' = "returned"
            /\ UNCHANGED <<tr_fut, tr_translated_texts>>
       ELSE IF Len(TrTexts) <= tr_args.batch_size * tr_args.max_workers
       THEN /\ tr_pc' = "translate_list"
            /\ UNCHANGED <<tr_fut, tr_translated_texts, tr_ret>>
       ELSE /\ tr_translated_texts' = [i \in 1..Len(TrTexts) |-> TrNone]
            /\ tr_fut' = [k \in 1..NumBatches |-> "pending"]
            /\ tr_pc' = "collect"
            /\ UNCHANGED tr_ret
    /\ UNCHANGED <<tr_args, tr_outcome, tr_exc>>

\* translate_list (lines 200-250): the batches one after the other, in the
\* calling thread; an exception of translate_text is not caught, neither
\* there nor at line 278.
TrListBatch ==
    /\ tr_pc = "translate_list"
    /\ LET k == Cardinality(DOMAIN tr_outcome) + 1
       IN  IF k > NumBatches
           THEN /\ tr_ret' = tr_translated_texts
                /\ tr_pc' = "returned"
                /\ UNCHANGED <<tr_outcome, tr_translated_texts, tr_exc>>
           ELSE \E o \in TranslateOutcomes :
                   /\ tr_outcome' = (k :> o) @@ tr_outcome
                   /\ IF o = "ok"
                      THEN /\ tr_translated_texts' =
                                  tr_translated_texts \o TranslateAll(batch_texts(k))
                           /\ UNCHANGED <<tr_pc, tr_exc>>
                      ELSE /\ tr_pc' = "raised"
                           /\ tr_exc' = "translate"
                           /\ UNCHANGED tr_translated_texts
                   /\ UNCHANGED tr_ret
    /\ UNCHANGED <<tr_args, tr_fut>>

TrRunning == {k \in DOMAIN tr_fut : tr_fut[k] = "running"}
TrPending == {k \in DOMAIN tr_fut : tr_fut[k] = "pending"}

\* A pool thread takes the oldest queued batch.
TrWorkerStart(k) ==
    /\ tr_pc = "collect"
    /\ k \in TrPending
    /\ \A j \in TrPending : k <= j
    /\ Cardinality(TrRunning) < tr_args.max_workers
    /\ tr_fut' = [tr_fut EXCEPT ![k] = "running"]
    /\ UNCHANGED <<tr_pc, tr_args, tr_outcome, tr_translated_texts, tr_ret, tr_exc>>

\* translate_batch in a pool thread (lines 288-307)
TrWorkerFinish(k) ==
    /\ tr_pc = "collect"
    /\ k \in TrRunning
    /\ \E o \in TranslateOutcomes : tr_outcome' = (k :> o) @@ tr_outcome
    /\ tr_fut' = [tr_fut EXCEPT ![k] = "done"]
    /\ UNCHANGED <<tr_pc, tr_args, tr_translated_texts, tr_ret, tr_exc>>

\* One iteration of the as_completed loop (lines 318-328)
TrCollect(k) ==
    /\ tr_pc = "collect"
    /\ k \in DOMAIN tr_fut
    /\ tr_fut[k] = "done"
    /\ tr_translated_texts' =
          Store(tr_translated_texts, batch_idx(k), translate_batch(k, tr_outcome[k]))
    /\ tr_fut' = [tr_fut EXCEPT ![k] = "collected"]
    /\ UNCHANGED <<tr_pc, tr_args, tr_outcome, tr_ret, tr_exc>>

\* lines 331-335
TrReturn ==
    /\ tr_pc = "collect"
    /\ \A k \in DOMAIN tr_fut : tr_fut[k] = "collected"
    /\ tr_ret' = FillWithOriginals(tr_translated_texts, TrTexts)
    /\ tr_pc' = "returned"
    /\ UNCHANGED <<tr_args, tr_fut, tr_outcome, tr_translated_texts, tr_exc>>

InitTranslate ==
    /\ IdleT
    /\ IdleM
    /\ IdleS
    /\ IdleU
    /\ IdleC
    /\ IdleW
    /\ tr_pc = "start"
    /\ tr_args \in [texts : SeqsUpTo({"a", "b"}, MaxTexts),
                    batch_size : 1..MaxBatchSize,
                    max_workers : 1..MaxTrWorkers]
    /\ tr_fut = <<>>
    /\ tr_outcome = <<>>
    /\ tr_translated_texts = <<>>
    /\ tr_ret = <<>>
    /\ tr_exc = ""

NextTranslate ==
    \/ TrEnter /\ UNCHANGED restR
    \/ TrListBatch /\ UNCHANGED restR
    \/ \E k \in 1..MaxTexts : TrWorkerStart(k) /\ UNCHANGED restR
    \/ \E k \in 1..MaxTexts : TrWorkerFinish(k) /\ UNCHANGED restR
    \/ \E k \in 1..MaxTexts : TrCollect(k) /\ UNCHANGED restR
    \/ TrReturn /\ UNCHANGED restR

SpecTranslate == InitTranslate /\ [][NextTranslate]_vars

\* C26: translate_list_parallel returns a list as long as its input whose
\* position i holds the translation of texts[i], in whatever order the batches
\* complete; when a batch fails, its positions hold the original texts and
\* the other batches are not affected (so the call does not raise).
BatchOf(i) == ((i - 1) \div tr_args.batch_size) + 1
C26_TranslationsInPlace ==
    tr_pc # "idle" =>
        /\ tr_exc = ""
        /\ tr_pc = "returned" =>
              /\ Len(tr_ret) = Len(TrTexts)
              /\ \A i \in 1..Len(TrTexts) :
                    tr_ret[i] = IF tr_outcome[BatchOf(i)] = "failed"
                                THEN TrTexts[i]
                                ELSE Translated(TrTexts[i])

C29_PoolsBounded ==
    /\ pc # "idle" =>
          /\ Cardinality(Running) <= args.max_workers
          /\ pc # "collect" => (Running = {} /\ Pending = {})
          /\ pc \in {"merge", "diarize"} => \A i \in ChunkIdx : fut[i].state = "collected"
    /\ su_pc # "idle" =>
          /\ Cardinality(SuRunning) <= su_args.max_workers
          /\ su_pc # "collect" => (SuRunning = {} /\ SuPending = {})
          /\ (su_pc = "reduce" /\ su_fut # <<>>) =>
                \A i \in 1..total_chunks : su_fut[i].state = "collected"

\* Three chunks of text, two workers: two summarizations run and the third
\* waits.
C29_Witness ==
    /\ su_pc = "collect"
    /\ total_chunks = 3
    /\ su_args.max_workers = 2
    /\ Cardinality(SuRunning) = 2
    /\ Cardinality(SuPending) = 1

\* C31: once the segments are dispatched each of them runs to completion or
\* to its own failure.  While the results are collected, the results
\* appended are those of the futures yielded so far, one each; when the
\* dispatch stage has ended, one result (possibly empty) is there for each
\* submitted segment, whatever the other workers did.
ResultsOf(i) == {k \in 1..Len(results) : results[k].idx = i}
C31_EverySegmentCollected ==
    /\ (pc = "collect" \/ CollectDone) =>
          /\ DOMAIN fut = ChunkIdx
          /\ \A i \in ChunkIdx :
                Cardinality(ResultsOf(i)) = IF fut[i].state = "collected" THEN 1 ELSE 0
          /\ \A k \in 1..Len(results) :
                /\ results[k].idx \in ChunkIdx
                /\ results[k].segments = fut[results[k].idx].result.segments
    /\ CollectDone =>
          /\ Len(results) = NumChunks
          /\ \A i \in ChunkIdx : fut[i].state = "collected"

\* Three segments, the first one collected failed, its siblings succeeded and
\* were collected after it.
C31_Witness ==
    /\ pc = "merge"
    /\ NumChunks = 3
    /\ Len(results) = 3
    /\ fut[results[1].idx].outcome = "raise"
    /\ fut[results[2].idx].outcome = "ok"
    /\ fut[results[3].idx].outcome = "ok"

\* C32: when alignment raises inside transcribe_chunk, the chunk's result is
\* the unaligned segment-level transcript, with the same segments as before
\* alignment, less every word whose end <= start or whose text is empty, and
\* the chunk is not reported as failed (its result is not the empty one).
Unaligned(i) ==
    ShiftAll(Speech(args.audio, chunks[i + 1].end - chunks[i + 1].start), chunks[i + 1].start)
WordKept(w) == ~(w.end <= w.start \/ w.word = "")
WithoutInvalidWords(segs) ==
    [k \in 1..Len(segs) |-> [segs[k] EXCEPT !.words = SelectSeq(@, WordKept)]]
AlignRaised(i) ==
    /\ fut[i].state \in {"done", "collected"}
    /\ fut[i].outcome = "align_raise"
    /\ ValidSegments(Unaligned(i)) # <<>>
C32_AlignFailureFallsBack ==
    \A i \in DOMAIN fut :
        AlignRaised(i) =>
            /\ fut[i].result.segments # <<>>
            /\ fut[i].result.segments = WithoutInvalidWords(Unaligned(i))

\* The parts of C32 other than the times: the texts of the segments are those
\* before alignment, in the same order, and the words kept are, shifted, the
\* valid ones.
C32_TextsAndWordsKept ==
    \A i \in DOMAIN fut :
        AlignRaised(i) =>
            /\ Len(fut[i].result.segments) = Len(Unaligned(i))
            /\ \A k \in 1..Len(Unaligned(i)) :
                  /\ fut[i].result.segments[k].text = Unaligned(i)[k].text
                  /\ [n \in 1..Len(fut[i].result.segments[k].words) |->
                         fut[i].result.segments[k].words[n].word]
                     = [n \in 1..Len(WithoutInvalidWords(Unaligned(i))[k].words) |->
                         WithoutInvalidWords(Unaligned(i))[k].words[n].word]

\* C33: every chunk split_text_into_chunks returns has at most chunk_size
\* characters, for every text, chunk_size >= 1 and overlap >= 0; the range it
\* is cut from has no more either.
C33_ChunkWithinSize ==
    st_chunk_size >= 1 =>
        /\ \A k \in 1..Len(st_chunks) : Len(st_chunks[k]) <= st_chunk_size
        /\ \A k \in 1..Len(st_cuts) : st_cuts[k].end - st_cuts[k].start <= st_chunk_size

\* A text longer than chunk_size was split: one chunk is full, another was
\* cut short at a separator.
C33_Witness ==
    /\ st_pc = "done"
    /\ st_chunk_size = 3
    /\ Len(st_text) = 5
    /\ Len(st_chunks) >= 2
    /\ \E k \in 1..Len(st_chunks) : Len(st_chunks[k]) = st_chunk_size
    /\ \E k \in 1..Len(st_cuts) :
          /\ st_cuts[k].end < Len(st_text)
          /\ st_cuts[k].end < st_cuts[k].start + st_chunk_size

\* C34: for a chunk that is not the last, if the window
\* [start, start + chunk_size) holds a separator of the preference list the
\* chunk ends right after the last occurrence in the window of the
\* highest-preference separator present; if it holds none the chunk ends at
\* the hard boundary start + chunk_size.
Boundary(start) == Min(start + st_chunk_size, Len(st_text))
OccurrencesIn(sep, start) ==
    {i \in start..(Boundary(start) - Len(sep)) : SubSeq(st_text, i + 1, i + Len(sep)) = sep}
Present(start) == {k \in 1..Len(Separators) : OccurrencesIn(Separators[k], start) # {}}
Preferred(start) == CHOOSE k \in Present(start) : \A j \in Present(start) : k <= j
LastOf(S) == CHOOSE i \in S : \A j \in S : j <= i
NaturalEnd(start) ==
    IF Present(start) = {} THEN Boundary(start)
    ELSE LastOf(OccurrencesIn(Separators[Preferred(start)], start))
         + Len(Separators[Preferred(start)])
C34_CutAtPreferredSeparator ==
    \A k \in 1..(Len(st_cuts) - 1) : st_cuts[k].end = NaturalEnd(st_cuts[k].start)

\* The same for the chunks whose window ends before the end of the text
\* (line 54).
C34_CutBeforeTextEnd ==
    \A k \in 1..Len(st_cuts) :
        st_cuts[k].start + st_chunk_size < Len(st_text) =>
            st_cuts[k].end = NaturalEnd(st_cuts[k].start)

\* C36: for chunk_size >= 1 and overlap >= 0 the ranges [start, end) cut by
\* split_text_into_chunks cover the text without gaps: the first starts at
\* 0, each next one starts no later than the previous one's end, the last
\* ends at the length of the text, and consecutive ranges share at most
\* overlap characters.
Shared(k) == Min(st_cuts[k].end, st_cuts[k + 1].end) - st_cuts[k + 1].start
C36_RangesCoverText ==
    st_chunk_size >= 1 =>
        /\ st_cuts # <<>> => st_cuts[1].start = 0
        /\ \A k \in 1..(Len(st_cuts) - 1) :
              /\ st_cuts[k + 1].start <= st_cuts[k].end
              /\ Shared(k) <= st_chunk_overlap
        /\ (st_pc = "done" /\ st_text # <<>>) =>
              /\ st_cuts # <<>>
              /\ st_cuts[Len(st_cuts)].end = Len(st_text)

\* A text cut at a separator and then at the hard boundary, the ranges
\* sharing exactly the one character of the overlap.
C36_Witness ==
    /\ st_pc = "done"
    /\ Len(st_text) = 5
    /\ st_chunk_size = 3
    /\ st_chunk_overlap = 1
    /\ Len(st_cuts) >= 3
    /\ st_cuts[1].end < 3
    /\ Shared(1) = 1
    /\ Shared(2) = 1

\* C35: with a language model that answers the same prompt with the same
\* text, summarize_text gives with enable_async and without it the same
\* sequence of chunk summaries, the same reduction input and the same final
\* summary, whatever the order in which the workers complete.  su_llm holds
\* what the model answers to the prompt of each chunk (0: to the reduction
\* prompt); both ways of running give what these answers determine.
SummariesOfAnswers == [i \in 1..total_chunks |-> summarize_chunk(st_chunks[i], i, su_llm[i])]
C35_SameWithAndWithoutPool ==
    (SuSplitDone /\ total_chunks > 1 /\ su_pc \in {"reduce", "returned", "raised", "job_done"}) =>
        /\ su_chunk_summaries = SummariesOfAnswers
        /\ su_reduce_calls = 1 =>
              /\ su_combined = Combine(SummariesOfAnswers)
              /\ su_llm[0] = "ok" =>
                    /\ su_pc \in {"returned", "job_done"}
                    /\ su_ret = [kind |-> "final", of |-> Combine(SummariesOfAnswers),
                                 index |-> 0, reason |-> ""]
              /\ su_llm[0] # "ok" => su_pc \in {"raised", "job_done"} /\ su_error = "reduction"

\* Three chunks were summarized by the pool, the last one collected first and
\* the second one failing, and the reduction returned.
C35_Witness ==
    /\ su_pc = "returned"
    /\ su_args.enable_async
    /\ total_chunks = 3
    /\ su_order = <<3, 1, 2>>
    /\ su_llm[2] = "timeout"
    /\ su_llm[1] = "ok"
    /\ su_ret.kind = "final"

\* C37: the end-of-stream sentinel is put on a job's progress queue exactly
\* once, after the event that carries the terminal status (completed or
\* error), and no progress event is put after it, so that a consumer reading
\* the queue in order gets the terminal-status event and then the sentinel.
\* A queue here is the sequence of everything put on it.
SentinelAt(q, k) ==
    /\ q[k] = End
    /\ k = Len(q)
    /\ k > 1
    /\ q[k - 1].step \in TerminalStatus
    /\ q[k - 1].status = q[k - 1].step
C37_SentinelEndsQueue ==
    \A t \in DOMAIN progress_queues :
        \A k \in 1..Len(progress_queues[t]) :
            progress_queues[t][k] = End => SentinelAt(progress_queues[t], k)

\* C38: any two jobs accepted by /process, also two accepted within the same
\* second, get distinct task ids, so that each has its own record and its own
\* queue.
C38_DistinctTaskIds ==
    \A j, k \in DOMAIN wa_jobs : j # k => wa_jobs[j].task_id # wa_jobs[k].task_id

\* C37 for jobs whose task ids are distinct: the queue of a finished job ends
\* with the terminal-status event and the sentinel, and before the job's
\* finally clause its queue holds no sentinel.
C37_SentinelEndsOwnQueue ==
    C38_DistinctTaskIds =>
        /\ C37_SentinelEndsQueue
        /\ \A j \in DOMAIN wa_jobs :
              LET q == progress_queues[wa_jobs[j].task_id]
              IN  IF wa_jobs[j].pc = "done"
                  THEN q # <<>> /\ q[Len(q)] = End
                       /\ q[Len(q) - 1].status = tasks[wa_jobs[j].task_id].status
                  ELSE End \notin Range(q)

====
